---- MODULE Spec2Model ----
(***************************************************************************)
(* Roster allocation and approval engine of the trip manager server        *)
(* (server/vite.ts: registerRoutes and the proposal cache).                 *)
(*                                                                         *)
(* The record store (Airtable) is the pair signups/status plus trips; the  *)
(* volatile server state is proposedRosters; every HTTP request is a slot   *)
(* of reqs that walks through the suspension points of its handler.         *)
(* The handlers are randomize, approve-randomization, the four promotion    *)
(* handlers addFromWaitlist, addDriver, addNonDriver and reAddParticipant,  *)
(* dropParticipant and the signups listing.                                 *)
(*                                                                         *)
(* The program reads the clock only to stamp a proposal and to take the     *)
(* difference Date.now() - proposal.timestamp, so the state keeps that      *)
(* difference (age) for every cached proposal instead of the two absolute   *)
(* times, and the time since the interval timer last fired.                 *)
(***************************************************************************)
EXTENDS Integers, Sequences, FiniteSets, TLC

VARIABLES
    sinceSweep,       \* milliseconds since the setInterval timer was set or last fired
    proposedRosters,  \* Map<tripId, ProposedRoster>: a function on the keys present
    trips,            \* trip records of the store: tripId -> fields
    signups,          \* signup records of the store, in the order the store lists them
    status,           \* the Status field of every signup record
    reqs              \* HTTP requests: slot -> position in its handler and its data

vars == <<sinceSweep, proposedRosters, trips, signups, status, reqs>>

----------------------------------------------------------------------------
(* Bounds of the model *)

MaxReq == 3          \* requests served in one run of Spec
MaxTimedReq == 2     \* requests served in one run of SpecTimed
MaxArgLen == 3       \* total number of ids an approve request body carries
MaxEnvReq == 2       \* requests served in one run of SpecEnv
TicksPerSweep == 3   \* clock steps per interval of the sweep timer
MaxDrivers == 5      \* driver-eligible signups in the allocator specification
MaxNonDrivers == 2   \* non-driver-eligible signups in the allocator specification
MaxSlots == 3        \* largest slot count of a trip in the allocator specification
MaxOpsReq == 2       \* requests served in one run of SpecOps
MaxWriteReq == 4     \* requests served in one run of SpecWrite
MaxCommitPool == 2   \* signups of either kind in the commit specification
MaxPool == 2         \* signups of the trip in the promotion specification
MaxCap == 2          \* largest capacity field of the trip in the promotion specification
MaxListPool == 2     \* signups of the trip in the drop-and-list specification
MaxSoftReq == 4      \* requests served in one run of SpecSoft
MaxFailReq == 3      \* requests served in one run of SpecFail
MaxSeqPool == 2      \* signups of the trip in the one-at-a-time specification
MaxSeqCap == 2       \* largest capacity of the trip in the one-at-a-time specification
MaxPosition == 2     \* largest waitlist position among the classified statuses
MaxWords == 2        \* words of a free-text status among the classified statuses
MaxRaceReq == 3      \* requests served in one run of SpecRace
MaxStaleReq == 4     \* requests served in one run of SpecStale
MaxPickPool == 2     \* signups of the trip in SpecPick

----------------------------------------------------------------------------
(* Program constants *)

PROPOSAL_TTL == 10 * 60 * 1000
SWEEP_INTERVAL == 60 * 1000
PLIMIT == 2

\* granularity of the clock
TickMs == SWEEP_INTERVAL \div TicksPerSweep

Trips == DOMAIN trips
Slots == DOMAIN reqs

----------------------------------------------------------------------------
(* Generic helpers *)

Min(a, b) == IF a < b THEN a ELSE b
Max(a, b) == IF a > b THEN a ELSE b
Range(s) == {s[i] : i \in DOMAIN s}

\* Array.prototype.slice(start, end) for 0 <= start
Slice(s, start, end) == SubSeq(s, start + 1, Min(end, Len(s)))

\* Array.prototype.slice(start)
SliceFrom(s, start) == SubSeq(s, start + 1, Len(s))

\* Array.prototype.filter
RECURSIVE Filter(_, _)
Filter(s, keep) ==
    IF s = <<>> THEN <<>>
    ELSE (IF Head(s) \in keep THEN <<Head(s)>> ELSE <<>>) \o Filter(Tail(s), keep)

\* every order a sort with a random comparator can leave the array in
Shuffles(s) ==
    IF s = <<>> THEN {<<>>}
    ELSE {[i \in 1..Len(s) |-> s[p[i]]] : p \in Permutations(1..Len(s))}

\* all sequences over S of length at most n
SeqsUpTo(S, n) == UNION {[1..k -> S] : k \in 0..n}

----------------------------------------------------------------------------
(* The record store *)

\* fetchTripSignups: the records whose trip reference contains tripId, in store order
SignupsOfTrip(table, tripId) ==
    LET keep == {s \in Range(table) : s.trip = tripId}
    IN  Filter(table, keep)

fetchTripSignups(tripId) == SignupsOfTrip(signups, tripId)

IdsOf(list) == [i \in DOMAIN list |-> list[i].id]

\* signupMap.get(id): the record with that id, or the empty sequence when absent
Lookup(list, id) ==
    LET hits == {s \in Range(list) : s.id = id}
    IN  IF hits = {} THEN <<>> ELSE <<CHOOSE s \in hits : TRUE>>

AllIds == {s.id : s \in Range(signups)}

----------------------------------------------------------------------------
(* Status strings and their classification *)

UpperCase == "ABCDEFGHIJKLMNOPQRSTUVWXYZ"
LowerCase == "abcdefghijklmnopqrstuvwxyz"

\* the lower-case letter of every upper-case letter
LowerOf ==
    [c \in {SubSeq(UpperCase, i, i) : i \in 1..Len(UpperCase)} |->
        LET i == CHOOSE i \in 1..Len(UpperCase) : SubSeq(UpperCase, i, i) = c
        IN  SubSeq(LowerCase, i, i)]

\* String.prototype.toLowerCase
RECURSIVE toLowerCase(_)
toLowerCase(s) ==
    IF Len(s) = 0 THEN ""
    ELSE LET c == SubSeq(s, 1, 1)
         IN  (IF c \in DOMAIN LowerOf THEN LowerOf[c] ELSE c)
             \o toLowerCase(SubSeq(s, 2, Len(s)))

\* String.prototype.includes
includes(s, sub) ==
    \E i \in 1..(Len(s) - Len(sub) + 1) : SubSeq(s, i, i + Len(sub) - 1) = sub

\* a roster filter without the exclusion of the dropped
isOnRosterKeepsDropped(st) ==
    LET lower == toLowerCase(st)
    IN  includes(lower, "selected") \/ includes(lower, "on trip")

\* the roster filter: contains "selected" or "on trip", and not "dropped"
isOnRoster(st) ==
    LET lower == toLowerCase(st)
    IN  (includes(lower, "selected") \/ includes(lower, "on trip"))
        /\ ~includes(lower, "dropped")

\* the waitlist filter: contains "waitlist"
isOnWaitlist(st) == includes(toLowerCase(st), "waitlist")

\* the dropped filter: contains "dropped"
isDropped(st) == includes(toLowerCase(st), "dropped")

\* signups.filter(...) by status, for a fetched list and the statuses it came with
RosterOf(list, st) == Filter(list, {s \in Range(list) : isOnRoster(st[s.id])})
WaitlistOf(list, st) == Filter(list, {s \in Range(list) : isOnWaitlist(st[s.id])})

\* list.filter(s => s.fields["Is Driver"]) and its complement
DriversIn(list) == Filter(list, {s \in Range(list) : s.isDriver})
NonDriversIn(list) == Filter(list, {s \in Range(list) : ~s.isDriver})

DroppedOf(list, st) == Filter(list, {s \in Range(list) : isDropped(st[s.id])})

\* the response of GET /api/airtable/signups/:tripId for a fetched list
listSignups(list, st) ==
    LET roster == RosterOf(list, st)
    IN  [signups |-> IdsOf(list),
         roster |-> IdsOf(roster),
         waitlist |-> IdsOf(WaitlistOf(list, st)),
         dropped |-> IdsOf(DroppedOf(list, st)),
         driverCount |-> Len(DriversIn(roster))]

\* the response before there is one
NoView ==
    [signups |-> <<>>, roster |-> <<>>, waitlist |-> <<>>, dropped |-> <<>>,
     driverCount |-> 0]

----------------------------------------------------------------------------
(* Dates *)

\* a calendar date, as new Date() gives it in local time
Date(y, m, d) == [y |-> y, m |-> m, d |-> d]

NoDate == Date(0, 0, 0)

\* the decimal digits of n, zero-padded to at least width digits
RECURSIVE Padded(_, _)
Padded(n, width) ==
    IF n < 10 /\ width <= 1 THEN ToString(n)
    ELSE Padded(n \div 10, width - 1) \o ToString(n % 10)

\* date-fns format(date, "MM/dd/yyyy")
format(date) ==
    Padded(date.m, 2) \o "/" \o Padded(date.d, 2) \o "/" \o Padded(date.y, 4)

----------------------------------------------------------------------------
(* Requests *)

Idle ==
    [op |-> "none", pc |-> "idle", trip |-> "-", result |-> "-",
     selD |-> <<>>, selND |-> <<>>, rosterIds |-> <<>>, waitlistIds |-> <<>>,
     tasks |-> <<>>, started |-> 0, inflight |-> {}, pid |-> 0, age |-> 0,
     participantId |-> "-", maxParticipants |-> 0, driverSlots |-> 0,
     nonDriverSlots |-> 0, today |-> NoDate, prior |-> "-", view |-> NoView,
     failed |-> {}]

\* requests arrive one slot after the other
CanStart(r) ==
    /\ reqs[r].pc = "idle"
    /\ \A q \in 1..(r - 1) : reqs[q].pc # "idle"

\* the slot the next request takes, if one is left
Arriving == {r \in Slots : CanStart(r)}

Finished(r, op, tripId, result) ==
    [Idle EXCEPT !.op = op, !.pc = "done", !.trip = tripId, !.result = result]

----------------------------------------------------------------------------
(* POST /api/airtable/randomize *)

\* a backfill that moves the whole driver overflow into the non-driver slots
AllocateGreedyBackfill(shuffledDrivers, shuffledNonDrivers, driverSlotsNeeded, nonDriverSlotsNeeded) ==
    LET firstNonDrivers == Slice(shuffledNonDrivers, 0, nonDriverSlotsNeeded)
        backfill == Len(firstNonDrivers) < nonDriverSlotsNeeded
    IN  [selD |-> Slice(shuffledDrivers, 0, driverSlotsNeeded),
         selND |-> firstNonDrivers \o
                   (IF backfill THEN SliceFrom(shuffledDrivers, driverSlotsNeeded)
                    ELSE <<>>),
         wl |-> (IF backfill THEN <<>> ELSE SliceFrom(shuffledDrivers, driverSlotsNeeded))
                \o SliceFrom(shuffledNonDrivers, nonDriverSlotsNeeded)]

\* a selection without the backfill step
AllocateNoBackfill(shuffledDrivers, shuffledNonDrivers, driverSlotsNeeded, nonDriverSlotsNeeded) ==
    [selD |-> Slice(shuffledDrivers, 0, driverSlotsNeeded),
     selND |-> Slice(shuffledNonDrivers, 0, nonDriverSlotsNeeded),
     wl |-> SliceFrom(shuffledDrivers, driverSlotsNeeded)
            \o SliceFrom(shuffledNonDrivers, nonDriverSlotsNeeded)]

\* a selection that also fills open driver slots from the non-driver overflow
AllocateSymmetric(shuffledDrivers, shuffledNonDrivers, driverSlotsNeeded, nonDriverSlotsNeeded) ==
    LET firstDrivers == Slice(shuffledDrivers, 0, driverSlotsNeeded)
        firstNonDrivers == Slice(shuffledNonDrivers, 0, nonDriverSlotsNeeded)
        remainingNonDriverPool == SliceFrom(shuffledNonDrivers, nonDriverSlotsNeeded)
        open == driverSlotsNeeded - Len(firstDrivers)
    IN  [selD |-> firstDrivers \o Slice(remainingNonDriverPool, 0, open),
         selND |-> firstNonDrivers,
         wl |-> SliceFrom(shuffledDrivers, driverSlotsNeeded)
                \o SliceFrom(remainingNonDriverPool, open)]

\* a selection that leaves the backfilled drivers on the waitlist as well
AllocateKeepsBackfilled(shuffledDrivers, shuffledNonDrivers, driverSlotsNeeded, nonDriverSlotsNeeded) ==
    LET remainingDriverPool == SliceFrom(shuffledDrivers, driverSlotsNeeded)
        firstNonDrivers == Slice(shuffledNonDrivers, 0, nonDriverSlotsNeeded)
        neededBackfill == nonDriverSlotsNeeded - Len(firstNonDrivers)
    IN  [selD |-> Slice(shuffledDrivers, 0, driverSlotsNeeded),
         selND |-> firstNonDrivers \o Slice(remainingDriverPool, 0, neededBackfill),
         wl |-> remainingDriverPool \o SliceFrom(shuffledNonDrivers, nonDriverSlotsNeeded)]

\* a selection that fills the non-driver slots from the driver overflow first
AllocateOverflowFirst(shuffledDrivers, shuffledNonDrivers, driverSlotsNeeded, nonDriverSlotsNeeded) ==
    LET remainingDriverPool == SliceFrom(shuffledDrivers, driverSlotsNeeded)
        driversUsedAsNonDrivers == Slice(remainingDriverPool, 0, nonDriverSlotsNeeded)
        left == nonDriverSlotsNeeded - Len(driversUsedAsNonDrivers)
    IN  [selD |-> Slice(shuffledDrivers, 0, driverSlotsNeeded),
         selND |-> driversUsedAsNonDrivers \o Slice(shuffledNonDrivers, 0, left),
         wl |-> SliceFrom(remainingDriverPool, nonDriverSlotsNeeded)
                \o SliceFrom(shuffledNonDrivers, left)]

\* selection and backfill over the two shuffled pools
Allocate(shuffledDrivers, shuffledNonDrivers, driverSlotsNeeded, nonDriverSlotsNeeded) ==
    LET selectedAsDrivers == Slice(shuffledDrivers, 0, driverSlotsNeeded)
        remainingDriverPool == SliceFrom(shuffledDrivers, driverSlotsNeeded)
        firstNonDrivers == Slice(shuffledNonDrivers, 0, nonDriverSlotsNeeded)
        remainingNonDriverPool == SliceFrom(shuffledNonDrivers, nonDriverSlotsNeeded)
        nonDriverSlotsFilled == Len(firstNonDrivers)
        backfill == nonDriverSlotsFilled < nonDriverSlotsNeeded
                        /\ Len(remainingDriverPool) > 0
        neededBackfill == nonDriverSlotsNeeded - nonDriverSlotsFilled
        driversUsedAsNonDrivers ==
            IF backfill THEN Slice(remainingDriverPool, 0, neededBackfill) ELSE <<>>
        finalRemainingDriverPool ==
            IF backfill THEN SliceFrom(remainingDriverPool, neededBackfill)
            ELSE remainingDriverPool
    IN  [selD |-> selectedAsDrivers,
         selND |-> firstNonDrivers \o driversUsedAsNonDrivers,
         wl |-> finalRemainingDriverPool \o remainingNonDriverPool]

\* a cache that is replaced by the new entry alone
CachePutOnly(cache, tripId, proposal) == [k \in {tripId} |-> proposal]

\* a cache that keeps the entry it already holds
CachePutFirstWins(cache, tripId, proposal) ==
    IF tripId \in DOMAIN cache THEN cache
    ELSE [k \in (DOMAIN cache) \cup {tripId} |-> IF k = tripId THEN proposal ELSE cache[k]]

\* a cache that writes the new roster next to the waitlist it already holds
CachePutMerged(cache, tripId, proposal) ==
    [k \in (DOMAIN cache) \cup {tripId} |->
        IF k # tripId THEN cache[k]
        ELSE IF tripId \in DOMAIN cache
             THEN [proposal EXCEPT !.waitlistIds = cache[tripId].waitlistIds]
             ELSE proposal]

\* proposedRosters.set(tripId, {rosterIds, waitlistIds, timestamp})
CachePut(cache, tripId, proposal) ==
    [k \in (DOMAIN cache) \cup {tripId} |-> IF k = tripId THEN proposal ELSE cache[k]]

\* a handler without the capacity check
CapacityAlwaysDefined(driverSlotsNeeded, nonDriverSlotsNeeded) == TRUE

\* the capacity check: driverSlotsNeeded === 0 && nonDriverSlotsNeeded === 0 is refused
CapacityDefined(driverSlotsNeeded, nonDriverSlotsNeeded) ==
    ~(driverSlotsNeeded = 0 /\ nonDriverSlotsNeeded = 0)

\* the handler: capacity check, pool check, then shuffle, select, backfill and store
Randomize(r, tripId) ==
    /\ CanStart(r)
    /\ LET driverSlotsNeeded == trips[tripId].drv
           nonDriverSlotsNeeded == trips[tripId].nd
           allSignups == fetchTripSignups(tripId)
           driverEligible == Filter(allSignups, {s \in Range(allSignups) : s.isDriver})
           nonDriverEligible == Filter(allSignups, {s \in Range(allSignups) : ~s.isDriver})
       IN  IF ~CapacityDefined(driverSlotsNeeded, nonDriverSlotsNeeded)
           THEN /\ reqs' = [reqs EXCEPT ![r] =
                       Finished(r, "randomize", tripId, "InvalidCapacity")]
                /\ UNCHANGED proposedRosters
           ELSE IF Len(allSignups) = 0
           THEN /\ reqs' = [reqs EXCEPT ![r] =
                       Finished(r, "randomize", tripId, "EmptyPool")]
                /\ UNCHANGED proposedRosters
           ELSE \E shuffledDrivers \in Shuffles(IdsOf(driverEligible)),
                   shuffledNonDrivers \in Shuffles(IdsOf(nonDriverEligible)) :
                   LET a == Allocate(shuffledDrivers, shuffledNonDrivers,
                                     driverSlotsNeeded, nonDriverSlotsNeeded)
                   IN  /\ proposedRosters' =
                              CachePut(proposedRosters, tripId,
                                       [rosterIds |-> a.selD \o a.selND,
                                        waitlistIds |-> a.wl,
                                        age |-> 0,
                                        by |-> r])
                       /\ reqs' = [reqs EXCEPT ![r] =
                              [Finished(r, "randomize", tripId, "ok") EXCEPT
                                  !.selD = a.selD, !.selND = a.selND,
                                  !.rosterIds = a.selD \o a.selND,
                                  !.waitlistIds = a.wl]]
    /\ UNCHANGED <<sinceSweep, trips, signups, status>>

\* The same handler, one step for each await. The request arrives and
\* fetchTripById returns: the handler keeps the slot counts it read, or refuses
RandomizeTripRead(r, tripId) ==
    /\ CanStart(r)
    /\ LET driverSlotsNeeded == trips[tripId].drv
           nonDriverSlotsNeeded == trips[tripId].nd
       IN  reqs' = [reqs EXCEPT ![r] =
               IF ~CapacityDefined(driverSlotsNeeded, nonDriverSlotsNeeded)
               THEN Finished(r, "randomize", tripId, "InvalidCapacity")
               ELSE [Idle EXCEPT !.op = "randomize", !.pc = "reading",
                                 !.trip = tripId,
                                 !.driverSlots = driverSlotsNeeded,
                                 !.nonDriverSlots = nonDriverSlotsNeeded]]
    /\ UNCHANGED <<sinceSweep, proposedRosters, trips, signups, status>>

\* fetchTripSignups returns: pool check, then shuffle, select, backfill and store
\* without a further await
RandomizeSignupsFetched(r) ==
    /\ reqs[r].op = "randomize"
    /\ reqs[r].pc = "reading"
    /\ LET tripId == reqs[r].trip
           allSignups == fetchTripSignups(tripId)
           driverEligible == Filter(allSignups, {s \in Range(allSignups) : s.isDriver})
           nonDriverEligible == Filter(allSignups, {s \in Range(allSignups) : ~s.isDriver})
       IN  IF Len(allSignups) = 0
           THEN /\ reqs' = [reqs EXCEPT ![r] =
                       Finished(r, "randomize", tripId, "EmptyPool")]
                /\ UNCHANGED proposedRosters
           ELSE \E shuffledDrivers \in Shuffles(IdsOf(driverEligible)),
                   shuffledNonDrivers \in Shuffles(IdsOf(nonDriverEligible)) :
                   LET a == Allocate(shuffledDrivers, shuffledNonDrivers,
                                     reqs[r].driverSlots, reqs[r].nonDriverSlots)
                   IN  /\ proposedRosters' =
                              CachePut(proposedRosters, tripId,
                                       [rosterIds |-> a.selD \o a.selND,
                                        waitlistIds |-> a.wl,
                                        age |-> 0,
                                        by |-> r])
                       /\ reqs' = [reqs EXCEPT ![r] =
                              [Finished(r, "randomize", tripId, "ok") EXCEPT
                                  !.selD = a.selD, !.selND = a.selND,
                                  !.rosterIds = a.selD \o a.selND,
                                  !.waitlistIds = a.wl]]
    /\ UNCHANGED <<sinceSweep, trips, signups, status>>

----------------------------------------------------------------------------
(* POST /api/airtable/approve-randomization *)

\* ids.length === stored.length && ids.every(id => storedSet.has(id))
IdsMatch(ids, storedIds) ==
    /\ Len(ids) = Len(storedIds)
    /\ \A i \in DOMAIN ids : ids[i] \in Range(storedIds)

\* a validation that also refuses a roster id whose signup is dropped by now
ValidateAgainstStatuses(cache, tripId, rosterIds, waitlistIds) ==
    IF tripId \notin DOMAIN cache THEN "NoPendingProposal"
    ELSE IF \/ ~IdsMatch(rosterIds, cache[tripId].rosterIds)
            \/ ~IdsMatch(waitlistIds, cache[tripId].waitlistIds)
            \/ \E i \in DOMAIN rosterIds :
                  rosterIds[i] \in DOMAIN status /\ isDropped(status[rosterIds[i]])
         THEN "ProposalMismatch"
         ELSE "ok"

\* outcome of the lookup and the validation against the stored proposal
Validate(cache, tripId, rosterIds, waitlistIds) ==
    IF tripId \notin DOMAIN cache THEN "NoPendingProposal"
    ELSE IF ~IdsMatch(rosterIds, cache[tripId].rosterIds)
            \/ ~IdsMatch(waitlistIds, cache[tripId].waitlistIds)
         THEN "ProposalMismatch"
         ELSE "ok"

\* a delete that removes nothing
CacheDeleteNothing(cache, tripId) == cache

\* proposedRosters.delete(tripId)
CacheDelete(cache, tripId) == [k \in (DOMAIN cache) \ {tripId} |-> cache[k]]

\* a handler that clears the entry before it validates
CacheAfterApproveEager(cache, tripId, outcome) ==
    [k \in (DOMAIN cache) \ {tripId} |-> cache[k]]

\* the cache when the handler reaches its first await (or returns)
CacheAfterApprove(cache, tripId, outcome) ==
    IF outcome = "ok" THEN CacheDelete(cache, tripId) ELSE cache

\* the request bodies a client can send for a trip: id lists over the ids of the
\* trip's signups and one id that is not among them (ids outside the trip are
\* all alike to the handler: none is in a stored list or in the signup map)
ApproveBodies(tripId) ==
    LET ids == Range(IdsOf(fetchTripSignups(tripId))) \cup {"s0"}
    IN  UNION {{<<rosterIds, waitlistIds>> :
                    waitlistIds \in SeqsUpTo(ids, MaxArgLen - Len(rosterIds))} :
               rosterIds \in SeqsUpTo(ids, MaxArgLen)}

ApproveRandomization(r, tripId, rosterIds, waitlistIds) ==
    /\ CanStart(r)
    /\ LET outcome == Validate(proposedRosters, tripId, rosterIds, waitlistIds)
       IN  /\ proposedRosters' = CacheAfterApprove(proposedRosters, tripId, outcome)
           /\ reqs' = [reqs EXCEPT ![r] =
                  IF outcome = "ok"
                  THEN [Idle EXCEPT !.op = "approve", !.pc = "fetching", !.trip = tripId,
                                    !.rosterIds = rosterIds, !.waitlistIds = waitlistIds,
                                    !.pid = proposedRosters[tripId].by,
                                    !.age = proposedRosters[tripId].age]
                  ELSE Finished(r, "approve", tripId, outcome)]
    /\ UNCHANGED <<sinceSweep, trips, signups, status>>

\* rosterUpdates: one update per roster id the signup map knows
RECURSIVE RosterUpdates(_, _)
RosterUpdates(ids, list) ==
    IF ids = <<>> THEN <<>>
    ELSE LET hit == Lookup(list, Head(ids))
         IN  (IF hit = <<>> THEN <<>>
              ELSE <<[id |-> Head(ids),
                      status |-> IF hit[1].isDriver THEN "Selected (driver)"
                                                    ELSE "Selected (nondriver)"]>>)
             \o RosterUpdates(Tail(ids), list)

\* waitlistDrivers / waitlistNonDrivers: the known ids with the given flag, in input order
RECURSIVE WaitlistSplit(_, _, _)
WaitlistSplit(ids, list, flag) ==
    IF ids = <<>> THEN <<>>
    ELSE LET hit == Lookup(list, Head(ids))
         IN  (IF hit # <<>> /\ hit[1].isDriver = flag THEN <<Head(ids)>> ELSE <<>>)
             \o WaitlistSplit(Tail(ids), list, flag)

\* a numbering that runs through both sub-lists
WaitlistUpdatesOneQueue(ids, list) ==
    LET waitlistDrivers == WaitlistSplit(ids, list, TRUE)
        waitlistNonDrivers == WaitlistSplit(ids, list, FALSE)
    IN  [i \in DOMAIN waitlistDrivers |->
            [id |-> waitlistDrivers[i], status |-> "Waitlist (driver) - " \o ToString(i)]]
        \o
        [i \in DOMAIN waitlistNonDrivers |->
            [id |-> waitlistNonDrivers[i],
             status |-> "Waitlist (nondriver) - "
                            \o ToString(Len(waitlistDrivers) + i)]]

\* waitlistUpdates: each sub-list numbered from 1
WaitlistUpdates(ids, list) ==
    LET waitlistDrivers == WaitlistSplit(ids, list, TRUE)
        waitlistNonDrivers == WaitlistSplit(ids, list, FALSE)
    IN  [i \in DOMAIN waitlistDrivers |->
            [id |-> waitlistDrivers[i], status |-> "Waitlist (driver) - " \o ToString(i)]]
        \o
        [i \in DOMAIN waitlistNonDrivers |->
            [id |-> waitlistNonDrivers[i], status |-> "Waitlist (nondriver) - " \o ToString(i)]]

\* a handler that writes the non-driver status to every roster id
UpdateTasksUnflagged(rosterIds, waitlistIds, list) ==
    [i \in DOMAIN rosterIds |-> [id |-> rosterIds[i], status |-> "Selected (nondriver)"]]
        \o WaitlistUpdates(waitlistIds, list)

\* a handler that writes the roster statuses only
UpdateTasksRosterOnly(rosterIds, waitlistIds, list) == RosterUpdates(rosterIds, list)

\* const updateTasks = [...rosterUpdates, ...waitlistUpdates]
UpdateTasks(rosterIds, waitlistIds, list) ==
    RosterUpdates(rosterIds, list) \o WaitlistUpdates(waitlistIds, list)

\* a Promise.all over the tasks without the limiter
StartedAtOnceUnlimited(updateTasks) == Len(updateTasks)

\* limit = pLimit(2): of the tasks handed over together, the first two start at once
StartedAtOnce(updateTasks) == Min(PLIMIT, Len(updateTasks))

\* fetchTripSignups returned: the update tasks are built and handed to pLimit(2),
\* which starts the first two at once
ApproveFetched(r) ==
    /\ reqs[r].pc = "fetching"
    /\ LET updateTasks == UpdateTasks(reqs[r].rosterIds, reqs[r].waitlistIds,
                                      fetchTripSignups(reqs[r].trip))
           first == StartedAtOnce(updateTasks)
       IN  reqs' = [reqs EXCEPT ![r] =
               IF updateTasks = <<>>
               THEN [@ EXCEPT !.pc = "done", !.result = "ok"]
               ELSE [@ EXCEPT !.pc = "writing", !.tasks = updateTasks,
                              !.started = first, !.inflight = 1..first]]
    /\ UNCHANGED <<sinceSweep, proposedRosters, trips, signups, status>>

\* the limiter after task i of request r settled: the next queued task starts
AfterSettled(r, i) ==
    LET more == reqs[r].started < Len(reqs[r].tasks)
    IN  [inflight |-> (reqs[r].inflight \ {i})
                          \cup (IF more THEN {reqs[r].started + 1} ELSE {}),
         started |-> IF more THEN reqs[r].started + 1 ELSE reqs[r].started]

\* updateSignup of task i resolved: the store holds the new status, pLimit starts
\* the next queued task, and Promise.all resolves after the last one; the PATCH
\* of a record the store does not hold is never answered with success
UpdateDone(r, i) ==
    /\ reqs[r].pc = "writing"
    /\ i \in reqs[r].inflight
    /\ reqs[r].tasks[i].id \in DOMAIN status
    /\ status' = [status EXCEPT ![reqs[r].tasks[i].id] = reqs[r].tasks[i].status]
    /\ LET after == AfterSettled(r, i)
       IN  reqs' = [reqs EXCEPT ![r] =
               [@ EXCEPT !.inflight = after.inflight,
                         !.started = after.started,
                         !.pc = IF after.inflight = {} THEN "done" ELSE "writing",
                         !.result = IF after.inflight = {} /\ @ = "-" THEN "ok" ELSE @]]
    /\ UNCHANGED <<sinceSweep, proposedRosters, trips, signups>>

\* a handler that takes back the writes it has made when one of them fails
StatusAfterFailureRollback(r, i) ==
    [id \in DOMAIN status |->
        IF id \in {reqs[r].tasks[k].id : k \in 1..reqs[r].started} THEN "UNKNOWN"
        ELSE status[id]]

\* the statuses of the store after task i of request r threw: as they were
StatusAfterFailure(r, i) == status

\* updateSignup of task i threw (the store refused the PATCH): nothing is written,
\* Promise.all rejects and the catch block answers with the error, while pLimit
\* goes on with the tasks it has queued
UpdateFailed(r, i) ==
    /\ reqs[r].pc = "writing"
    /\ i \in reqs[r].inflight
    /\ status' = StatusAfterFailure(r, i)
    /\ LET after == AfterSettled(r, i)
       IN  reqs' = [reqs EXCEPT ![r] =
               [@ EXCEPT !.inflight = after.inflight,
                         !.started = after.started,
                         !.pc = IF after.inflight = {} THEN "done" ELSE "writing",
                         !.result = IF @ = "-" THEN "UpstreamFailure" ELSE @,
                         !.failed = @ \cup {i}]]
    /\ UNCHANGED <<sinceSweep, proposedRosters, trips, signups>>

\* fetchTripSignups of the approval threw: the catch block answers with the
\* error; the proposal was deleted before the fetch
ApproveFetchFailed(r) ==
    /\ reqs[r].pc = "fetching"
    /\ reqs' = [reqs EXCEPT ![r] = [@ EXCEPT !.pc = "done", !.result = "UpstreamFailure"]]
    /\ UNCHANGED <<sinceSweep, proposedRosters, trips, signups, status>>

----------------------------------------------------------------------------
(* The promotion handlers: addFromWaitlist, addDriver, addNonDriver and
   reAddParticipant.  Each reads the trip, reads the trip's signups, decides on
   what it read and, when it does not refuse, writes one status. *)

\* an early return with an error response
Refuse(error) == [result |-> error, id |-> "-", status |-> "-"]

\* the status update the handler goes on to write
Write(id, newStatus) == [result |-> "ok", id |-> id, status |-> newStatus]

\* isDriver ? "Selected (driver)" : "Selected (nondriver)"
SelectedStatus(isDriver) ==
    IF isDriver THEN "Selected (driver)" ELSE "Selected (nondriver)"

\* a generic promote that prefers the non-driver when both spot types are open
addFromWaitlistPreferNonDriver(list, st, maxParticipants, driverSlots) ==
    LET roster == RosterOf(list, st)
        currentDrivers == Len(DriversIn(roster))
        currentNonDrivers == Len(roster) - currentDrivers
        driverSpotsAvailable == driverSlots - currentDrivers
        nonDriverSpotsAvailable == maxParticipants - driverSlots - currentNonDrivers
        waitlist == WaitlistOf(list, st)
        waitlistDrivers == DriversIn(waitlist)
        waitlistNonDrivers == NonDriversIn(waitlist)
    IN  IF Len(roster) >= maxParticipants THEN Refuse("RosterFull")
        ELSE IF Len(waitlist) = 0 THEN Refuse("WaitlistEmpty")
        ELSE IF (nonDriverSpotsAvailable > 0 /\ Len(waitlistNonDrivers) > 0)
                \/ (driverSpotsAvailable <= 0 /\ nonDriverSpotsAvailable > 0)
        THEN IF Len(waitlistNonDrivers) = 0 THEN Refuse("NoNonDriversOnWaitlist")
             ELSE Write(waitlistNonDrivers[1].id, "Selected (nondriver)")
        ELSE IF Len(waitlistDrivers) = 0 THEN Refuse("NoDriversOnWaitlist")
        ELSE Write(waitlistDrivers[1].id, "Selected (driver)")

\* a generic promote that fills an open spot with whoever is first on the waitlist
addFromWaitlistAnyone(list, st, maxParticipants, driverSlots) ==
    LET roster == RosterOf(list, st)
        waitlist == WaitlistOf(list, st)
    IN  IF Len(roster) >= maxParticipants THEN Refuse("RosterFull")
        ELSE IF Len(waitlist) = 0 THEN Refuse("WaitlistEmpty")
        ELSE Write(waitlist[1].id, SelectedStatus(waitlist[1].isDriver))

\* a generic promote that looks at the waitlist before it looks at the capacity
addFromWaitlistEmptyFirst(list, st, maxParticipants, driverSlots) ==
    LET roster == RosterOf(list, st)
        waitlist == WaitlistOf(list, st)
    IN  IF Len(waitlist) = 0 THEN Refuse("WaitlistEmpty")
        ELSE IF Len(roster) >= maxParticipants THEN Refuse("RosterFull")
        ELSE Write(waitlist[1].id, SelectedStatus(waitlist[1].isDriver))

\* POST /api/airtable/addFromWaitlist, from the fetched signups to the decision
addFromWaitlist(list, st, maxParticipants, driverSlots) ==
    LET roster == RosterOf(list, st)
        currentDrivers == Len(DriversIn(roster))
        currentNonDrivers == Len(roster) - currentDrivers
        currentTotal == Len(roster)
        driverSpotsAvailable == driverSlots - currentDrivers
        nonDriverSpotsAvailable == maxParticipants - driverSlots - currentNonDrivers
        waitlist == WaitlistOf(list, st)
        waitlistDrivers == DriversIn(waitlist)
        waitlistNonDrivers == NonDriversIn(waitlist)
    IN  IF currentTotal >= maxParticipants THEN Refuse("RosterFull")
        ELSE IF Len(waitlist) = 0 THEN Refuse("WaitlistEmpty")
        ELSE IF driverSpotsAvailable > 0 /\ nonDriverSpotsAvailable > 0
        THEN IF Len(waitlistDrivers) > 0
             THEN Write(waitlistDrivers[1].id, SelectedStatus(waitlistDrivers[1].isDriver))
             ELSE IF Len(waitlistNonDrivers) > 0
             THEN Write(waitlistNonDrivers[1].id,
                        SelectedStatus(waitlistNonDrivers[1].isDriver))
             ELSE Refuse("WaitlistEmpty")
        ELSE IF driverSpotsAvailable > 0
        THEN IF Len(waitlistDrivers) = 0 THEN Refuse("NoDriversOnWaitlist")
             ELSE Write(waitlistDrivers[1].id, SelectedStatus(waitlistDrivers[1].isDriver))
        ELSE IF nonDriverSpotsAvailable > 0
        THEN IF Len(waitlistNonDrivers) = 0 THEN Refuse("NoNonDriversOnWaitlist")
             ELSE Write(waitlistNonDrivers[1].id,
                        SelectedStatus(waitlistNonDrivers[1].isDriver))
        ELSE Refuse("NoSuitableParticipant")

\* a driver-only promote without the check of the driver spots
addDriverIgnoresSpots(list, st, maxParticipants, driverSlots) ==
    LET roster == RosterOf(list, st)
        waitlistDrivers == DriversIn(WaitlistOf(list, st))
    IN  IF Len(roster) >= maxParticipants THEN Refuse("RosterFull")
        ELSE IF Len(waitlistDrivers) = 0 THEN Refuse("NoDriversOnWaitlist")
        ELSE Write(waitlistDrivers[1].id, "Selected (driver)")

\* a driver-only promote that takes the last waitlisted driver of the list
addDriverLastWaiting(list, st, maxParticipants, driverSlots) ==
    LET roster == RosterOf(list, st)
        currentDrivers == Len(DriversIn(roster))
        currentTotal == Len(roster)
        driverSpotsAvailable == driverSlots - currentDrivers
        waitlistDrivers == DriversIn(WaitlistOf(list, st))
    IN  IF currentTotal >= maxParticipants THEN Refuse("RosterFull")
        ELSE IF driverSpotsAvailable <= 0 THEN Refuse("NoDriverSpots")
        ELSE IF Len(waitlistDrivers) = 0 THEN Refuse("NoDriversOnWaitlist")
        ELSE Write(waitlistDrivers[Len(waitlistDrivers)].id, "Selected (driver)")

\* POST /api/airtable/addDriver, from the fetched signups to the decision
addDriver(list, st, maxParticipants, driverSlots) ==
    LET roster == RosterOf(list, st)
        currentDrivers == Len(DriversIn(roster))
        currentTotal == Len(roster)
        driverSpotsAvailable == driverSlots - currentDrivers
        waitlistDrivers == DriversIn(WaitlistOf(list, st))
    IN  IF currentTotal >= maxParticipants THEN Refuse("RosterFull")
        ELSE IF driverSpotsAvailable <= 0 THEN Refuse("NoDriverSpots")
        ELSE IF Len(waitlistDrivers) = 0 THEN Refuse("NoDriversOnWaitlist")
        ELSE Write(waitlistDrivers[1].id, "Selected (driver)")

\* a non-driver-only promote that counts the whole capacity as non-driver capacity
addNonDriverWholeCapacity(list, st, maxParticipants, driverSlots) ==
    LET roster == RosterOf(list, st)
        nonDriverSpotsAvailable == maxParticipants - Len(NonDriversIn(roster))
        waitlistNonDrivers == NonDriversIn(WaitlistOf(list, st))
    IN  IF Len(roster) >= maxParticipants THEN Refuse("RosterFull")
        ELSE IF nonDriverSpotsAvailable <= 0 THEN Refuse("NoNonDriverSpots")
        ELSE IF Len(waitlistNonDrivers) = 0 THEN Refuse("NoNonDriversOnWaitlist")
        ELSE Write(waitlistNonDrivers[1].id, "Selected (nondriver)")

\* a non-driver-only promote that checks the non-driver spots only
addNonDriverSubCapacityOnly(list, st, maxParticipants, driverSlots) ==
    LET roster == RosterOf(list, st)
        nonDriverSpotsAvailable == maxParticipants - driverSlots - Len(NonDriversIn(roster))
        waitlistNonDrivers == NonDriversIn(WaitlistOf(list, st))
    IN  IF nonDriverSpotsAvailable <= 0 THEN Refuse("NoNonDriverSpots")
        ELSE IF Len(waitlistNonDrivers) = 0 THEN Refuse("NoNonDriversOnWaitlist")
        ELSE Write(waitlistNonDrivers[1].id, "Selected (nondriver)")

\* POST /api/airtable/addNonDriver, from the fetched signups to the decision
addNonDriver(list, st, maxParticipants, driverSlots) ==
    LET roster == RosterOf(list, st)
        currentNonDrivers == Len(NonDriversIn(roster))
        currentTotal == Len(roster)
        nonDriverCapacity == maxParticipants - driverSlots
        nonDriverSpotsAvailable == nonDriverCapacity - currentNonDrivers
        waitlistNonDrivers == NonDriversIn(WaitlistOf(list, st))
    IN  IF currentTotal >= maxParticipants THEN Refuse("RosterFull")
        ELSE IF nonDriverSpotsAvailable <= 0 THEN Refuse("NoNonDriverSpots")
        ELSE IF Len(waitlistNonDrivers) = 0 THEN Refuse("NoNonDriversOnWaitlist")
        ELSE Write(waitlistNonDrivers[1].id, "Selected (nondriver)")

\* a re-add that checks the total capacity only
reAddParticipantTotalOnly(list, st, maxParticipants, driverSlots, participantId) ==
    LET droppedParticipant == Lookup(list, participantId)
    IN  IF droppedParticipant = <<>> THEN Refuse("ParticipantNotFound")
        ELSE IF Len(RosterOf(list, st)) >= maxParticipants THEN Refuse("RosterFull")
        ELSE Write(participantId, SelectedStatus(droppedParticipant[1].isDriver))

\* POST /api/airtable/reAddParticipant, from the fetched signups to the decision
reAddParticipant(list, st, maxParticipants, driverSlots, participantId) ==
    LET droppedParticipant == Lookup(list, participantId)
        roster == RosterOf(list, st)
        currentTotal == Len(roster)
        currentDrivers == Len(DriversIn(roster))
        currentNonDrivers == Len(roster) - currentDrivers
        nonDriverCapacity == maxParticipants - driverSlots
    IN  IF droppedParticipant = <<>> THEN Refuse("ParticipantNotFound")
        ELSE IF currentTotal >= maxParticipants THEN Refuse("RosterFull")
        ELSE IF droppedParticipant[1].isDriver /\ driverSlots - currentDrivers <= 0
        THEN Refuse("NoDriverSpots")
        ELSE IF ~droppedParticipant[1].isDriver
                /\ nonDriverCapacity - currentNonDrivers <= 0
        THEN Refuse("NoNonDriverSpots")
        ELSE Write(participantId, SelectedStatus(droppedParticipant[1].isDriver))

\* the request arrives and fetchTripById returns the trip's fields
TripRead(r, op, tripId, participantId) ==
    /\ CanStart(r)
    /\ reqs' = [reqs EXCEPT ![r] =
           [Idle EXCEPT !.op = op, !.pc = "reading", !.trip = tripId,
                        !.participantId = participantId,
                        !.maxParticipants = trips[tripId].cap,
                        !.driverSlots = trips[tripId].drv]]
    /\ UNCHANGED <<sinceSweep, proposedRosters, trips, signups, status>>

AddFromWaitlist(r, tripId) == TripRead(r, "addFromWaitlist", tripId, "-")
AddDriver(r, tripId) == TripRead(r, "addDriver", tripId, "-")
AddNonDriver(r, tripId) == TripRead(r, "addNonDriver", tripId, "-")
ReAddParticipant(r, tripId, participantId) ==
    TripRead(r, "reAddParticipant", tripId, participantId)

\* the decision of the handler of request r on the signups as they are now
Decision(r) ==
    LET list == fetchTripSignups(reqs[r].trip)
        maxParticipants == reqs[r].maxParticipants
        driverSlots == reqs[r].driverSlots
    IN  IF reqs[r].op = "addFromWaitlist"
        THEN addFromWaitlist(list, status, maxParticipants, driverSlots)
        ELSE IF reqs[r].op = "addDriver"
        THEN addDriver(list, status, maxParticipants, driverSlots)
        ELSE IF reqs[r].op = "addNonDriver"
        THEN addNonDriver(list, status, maxParticipants, driverSlots)
        ELSE reAddParticipant(list, status, maxParticipants, driverSlots,
                              reqs[r].participantId)

\* a handler that sends its write a second time
PromotionWritesTwice(decision) ==
    IF decision.result = "ok"
    THEN <<[id |-> decision.id, status |-> decision.status],
           [id |-> decision.id, status |-> decision.status]>>
    ELSE <<>>

\* the updateSignup calls a decision leads to
PromotionWrites(decision) ==
    IF decision.result = "ok"
    THEN <<[id |-> decision.id, status |-> decision.status]>>
    ELSE <<>>

\* fetchTripSignups returned: the handler refuses, or calls updateSignup once
SignupsFetched(r) ==
    /\ reqs[r].pc = "reading"
    /\ LET decision == Decision(r)
           writes == PromotionWrites(decision)
       IN  reqs' = [reqs EXCEPT ![r] =
               IF writes = <<>>
               THEN [@ EXCEPT !.pc = "done", !.result = decision.result]
               ELSE [@ EXCEPT !.pc = "writing", !.tasks = writes,
                              !.started = Len(writes), !.inflight = 1..Len(writes)]]
    /\ UNCHANGED <<sinceSweep, proposedRosters, trips, signups, status>>

----------------------------------------------------------------------------
(* POST /api/airtable/dropParticipant and GET /api/airtable/signups/:tripId *)

\* the dates in use: a one-digit month and day, and a two-digit month and day
Dates == {Date(2026, 1, 5), Date(2025, 12, 31)}

\* a drop that writes the date without leading zeros
dropParticipantUnpadded(participantId, today) ==
    <<[id |-> participantId,
       status |-> "Dropped- " \o ToString(today.m) \o "/" \o ToString(today.d)
                      \o "/" \o ToString(today.y)]>>

\* the update of the drop handler: `Dropped- ${format(new Date(), "MM/dd/yyyy")}`
dropParticipant(participantId, today) ==
    <<[id |-> participantId, status |-> "Dropped- " \o format(today)]>>

\* the status of a signup id as the store holds it, "-" for an id it does not hold
StatusNow(id) == IF id \in DOMAIN status THEN status[id] ELSE "-"

\* the request arrives and the handler calls updateSignup at once: it reads
\* neither the trip nor the signups
DropParticipant(r, tripId, participantId, today) ==
    /\ CanStart(r)
    /\ LET writes == dropParticipant(participantId, today)
       IN  reqs' = [reqs EXCEPT ![r] =
               [Idle EXCEPT !.op = "dropParticipant", !.pc = "writing", !.trip = tripId,
                            !.participantId = participantId, !.today = today,
                            !.prior = StatusNow(participantId),
                            !.tasks = writes, !.started = Len(writes),
                            !.inflight = 1..Len(writes)]]
    /\ UNCHANGED <<sinceSweep, proposedRosters, trips, signups, status>>

\* the listing: fetchTripSignups and the three filters, answered in one step
GetSignups(r, tripId) ==
    /\ CanStart(r)
    /\ reqs' = [reqs EXCEPT ![r] =
           [Finished(r, "signups", tripId, "ok") EXCEPT
               !.view = listSignups(fetchTripSignups(tripId), status)]]
    /\ UNCHANGED <<sinceSweep, proposedRosters, trips, signups, status>>

----------------------------------------------------------------------------
(* The expiry timer and the clock *)

\* a sweep that renews the entries past the TTL instead of removing them
SweptRenews(cache) ==
    [k \in DOMAIN cache |->
        IF cache[k].age > PROPOSAL_TTL THEN [cache[k] EXCEPT !.age = 0] ELSE cache[k]]

\* a sweep that also removes the entries whose age is exactly the TTL
SweptFromTtl(cache) ==
    [k \in {k \in DOMAIN cache : cache[k].age < PROPOSAL_TTL} |-> cache[k]]

\* the entries cleanupExpiredProposals keeps: now - proposal.timestamp > PROPOSAL_TTL
\* removes
Swept(cache) ==
    [k \in {k \in DOMAIN cache : ~(cache[k].age > PROPOSAL_TTL)} |-> cache[k]]

\* the interval timer fires
cleanupExpiredProposals ==
    /\ sinceSweep >= SWEEP_INTERVAL
    /\ proposedRosters' = Swept(proposedRosters)
    /\ sinceSweep' = sinceSweep - SWEEP_INTERVAL
    /\ UNCHANGED <<trips, signups, status, reqs>>

\* time passes; a timer that is due fires before the clock moves on
Tick ==
    /\ sinceSweep < SWEEP_INTERVAL
    /\ sinceSweep' = sinceSweep + TickMs
    /\ proposedRosters' =
           [k \in DOMAIN proposedRosters |->
               [proposedRosters[k] EXCEPT !.age = @ + TickMs]]
    /\ UNCHANGED <<trips, signups, status, reqs>>

----------------------------------------------------------------------------
(* Initial states and specifications *)

Signup(id, tripId, isDriver) == [id |-> id, trip |-> tripId, isDriver |-> isDriver]

Unknown(table) == [i \in {s.id : s \in Range(table)} |-> "UNKNOWN"]

MainTable ==
    << Signup("s1", "t1", TRUE), Signup("s2", "t1", TRUE),
       Signup("s3", "t1", FALSE), Signup("s4", "t2", FALSE) >>

MainTrips ==
    [t \in {"t1", "t2", "t3"} |->
        IF t = "t1" THEN [cap |-> 3, drv |-> 1, nd |-> 1]
        ELSE IF t = "t2" THEN [cap |-> 1, drv |-> 0, nd |-> 1]
        ELSE [cap |-> 0, drv |-> 0, nd |-> 0]]

Init ==
    /\ sinceSweep = 0
    /\ proposedRosters = <<>>
    /\ trips = MainTrips
    /\ signups = MainTable
    /\ status = Unknown(MainTable)
    /\ reqs = [r \in 1..MaxReq |-> Idle]

Next ==
    \/ \E r \in Arriving, tripId \in Trips : Randomize(r, tripId)
    \/ \E r \in Arriving : \E tripId \in Trips : \E b \in ApproveBodies(tripId) :
          ApproveRandomization(r, tripId, b[1], b[2])
    \/ \E r \in Slots : ApproveFetched(r)
    \/ \E r \in Slots : \E i \in DOMAIN reqs[r].tasks : UpdateDone(r, i)

Spec == Init /\ [][Next]_vars

TimedTable == << Signup("s1", "t1", TRUE), Signup("s2", "t1", FALSE) >>

InitTimed ==
    /\ sinceSweep = 0
    /\ proposedRosters = <<>>
    /\ trips = [t \in {"t1"} |-> [cap |-> 1, drv |-> 1, nd |-> 0]]
    /\ signups = TimedTable
    /\ status = Unknown(TimedTable)
    /\ reqs = [r \in 1..MaxTimedReq |-> Idle]

NextTimed ==
    \/ Next
    \/ cleanupExpiredProposals
    \/ Tick

SpecTimed == InitTimed /\ [][NextTimed]_vars

\* time goes on and the interval timer keeps firing
SpecTimedLive == SpecTimed /\ WF_vars(Tick) /\ WF_vars(cleanupExpiredProposals)

----------------------------------------------------------------------------
(* The store edited from outside the server (the Airtable base is shared) *)

EditChoices == {[cap |-> 3, drv |-> 1, nd |-> 1], [cap |-> 0, drv |-> 0, nd |-> 0]}

\* somebody changes the capacity fields of a trip record
TripEdited(tripId, fields) ==
    /\ fields # trips[tripId]
    /\ trips' = [trips EXCEPT ![tripId] = fields]
    /\ UNCHANGED <<sinceSweep, proposedRosters, signups, status, reqs>>

\* somebody deletes a signup record
SignupDeleted(id) ==
    /\ id \in AllIds
    /\ signups' = Filter(signups, {s \in Range(signups) : s.id # id})
    /\ status' = [i \in AllIds \ {id} |-> status[i]]
    /\ UNCHANGED <<sinceSweep, proposedRosters, trips, reqs>>

EnvTable ==
    << Signup("s1", "t1", TRUE), Signup("s2", "t1", FALSE), Signup("s3", "t2", TRUE) >>

InitEnv ==
    /\ sinceSweep = 0
    /\ proposedRosters = <<>>
    /\ trips = [t \in {"t1", "t2"} |-> [cap |-> 3, drv |-> 1, nd |-> 1]]
    /\ signups = EnvTable
    /\ status = Unknown(EnvTable)
    /\ reqs = [r \in 1..MaxEnvReq |-> Idle]

NextEnv ==
    \/ Next
    \/ \E tripId \in Trips, fields \in EditChoices : TripEdited(tripId, fields)
    \/ \E id \in AllIds : SignupDeleted(id)
    \/ \E r \in Slots : \E i \in DOMAIN reqs[r].tasks : UpdateFailed(r, i)

SpecEnv == InitEnv /\ [][NextEnv]_vars

----------------------------------------------------------------------------
(* The allocator over every pool and slot count within the bounds *)

\* a trip "t1" with D driver-eligible and N non-driver-eligible signups
PoolTable(D, N) ==
    [i \in 1..(D + N) |-> Signup("s" \o ToString(i), "t1", i <= D)]

InitAlloc ==
    /\ sinceSweep = 0
    /\ proposedRosters = <<>>
    /\ \E d \in 0..MaxSlots, n \in 0..MaxSlots :
          \E c \in {d + n, Max(0, d + n - 1)} :
             trips = [t \in {"t1"} |-> [cap |-> c, drv |-> d, nd |-> n]]
    /\ \E D \in 0..MaxDrivers, N \in 0..MaxNonDrivers :
          /\ signups = PoolTable(D, N)
          /\ status = Unknown(PoolTable(D, N))
    /\ reqs = [r \in 1..1 |-> Idle]

NextAlloc ==
    \E r \in Arriving, tripId \in Trips : Randomize(r, tripId)

SpecAlloc == InitAlloc /\ [][NextAlloc]_vars

----------------------------------------------------------------------------
(* All request handlers together, on a store that already holds statuses *)

OpsTable ==
    << Signup("s1", "t1", TRUE), Signup("s2", "t1", FALSE), Signup("s3", "t2", FALSE) >>

OpsStatus ==
    [i \in {"s1", "s2", "s3"} |->
        IF i = "s1" THEN "Waitlist (driver) - 1"
        ELSE IF i = "s2" THEN "Selected (nondriver)"
        ELSE "WAITLIST"]

InitOps ==
    /\ sinceSweep = 0
    /\ proposedRosters = <<>>
    /\ trips = [t \in {"t1", "t2"} |->
                   IF t = "t1" THEN [cap |-> 2, drv |-> 1, nd |-> 1]
                   ELSE [cap |-> 1, drv |-> 0, nd |-> 1]]
    /\ signups = OpsTable
    /\ status = OpsStatus
    /\ reqs = [r \in 1..MaxOpsReq |-> Idle]

\* the ids a client can name in a request about a trip: the ids of the trip's
\* signups and one id that is not among them
ParticipantIds(tripId) == Range(IdsOf(fetchTripSignups(tripId))) \cup {"s0"}

NextOps ==
    \/ Next
    \/ \E r \in Arriving, tripId \in Trips : AddFromWaitlist(r, tripId)
    \/ \E r \in Arriving, tripId \in Trips : AddDriver(r, tripId)
    \/ \E r \in Arriving, tripId \in Trips : AddNonDriver(r, tripId)
    \/ \E r \in Arriving, tripId \in Trips :
          \E participantId \in ParticipantIds(tripId) :
             ReAddParticipant(r, tripId, participantId)
    \/ \E r \in Slots : SignupsFetched(r)

SpecOps == InitOps /\ [][NextOps]_vars

----------------------------------------------------------------------------
(* Approvals of two trips, with room for both proposals and both approvals *)

InitWrite ==
    /\ sinceSweep = 0
    /\ proposedRosters = <<>>
    /\ trips = [t \in {"t1", "t2"} |-> [cap |-> 3, drv |-> 1, nd |-> 1]]
    /\ signups = EnvTable
    /\ status = Unknown(EnvTable)
    /\ reqs = [r \in 1..MaxWriteReq |-> Idle]

SpecWrite == InitWrite /\ [][Next]_vars

----------------------------------------------------------------------------
(* One promotion request over every store content within the bounds *)

\* the statuses a signup record can hold when the request arrives
StatusKinds == {"Selected", "ON TRIP", "Waitlist", "Dropped"}

\* the status text of a kind for the i-th signup of the table
StatusText(kind, isDriver, i) ==
    IF kind = "Selected" THEN SelectedStatus(isDriver)
    ELSE IF kind = "Waitlist"
    THEN (IF isDriver THEN "Waitlist (driver) - " ELSE "Waitlist (nondriver) - ")
         \o ToString(i)
    ELSE IF kind = "Dropped" THEN "Dropped- 10/31/2026"
    ELSE kind

\* a trip "t1" with signups "s1", "s2", ... of the given driver flags
FlagTable(flags) ==
    [i \in DOMAIN flags |-> Signup("s" \o ToString(i), "t1", flags[i])]

\* the trip of the promoteDriver scenario: capacity 10, 3 driver slots, a roster
\* of 2 drivers and 5 non-drivers and 1 driver on the waitlist
ScenarioFlags == [i \in 1..8 |-> i \in {1, 2, 8}]
ScenarioKinds == [i \in 1..8 |-> IF i = 8 THEN "Waitlist" ELSE "Selected"]

InitPromote ==
    /\ sinceSweep = 0
    /\ proposedRosters = <<>>
    /\ \/ /\ \E cap \in 0..MaxCap, drv \in 0..MaxCap :
                \E nd \in {Max(0, cap - drv), 0} :
                   trips = [t \in {"t1"} |-> [cap |-> cap, drv |-> drv, nd |-> nd]]
          /\ \E n \in 0..MaxPool :
                \E flags \in [1..n -> BOOLEAN], kinds \in [1..n -> StatusKinds] :
                   /\ signups = FlagTable(flags)
                   /\ status = [id \in {"s" \o ToString(i) : i \in 1..n} |->
                                   LET i == CHOOSE i \in 1..n : "s" \o ToString(i) = id
                                   IN  StatusText(kinds[i], flags[i], i)]
       \/ /\ trips = [t \in {"t1"} |-> [cap |-> 10, drv |-> 3, nd |-> 7]]
          /\ signups = FlagTable(ScenarioFlags)
          /\ status = [id \in {"s" \o ToString(i) : i \in 1..8} |->
                          LET i == CHOOSE i \in 1..8 : "s" \o ToString(i) = id
                          IN  StatusText(ScenarioKinds[i], ScenarioFlags[i], i)]
    /\ reqs = [r \in 1..1 |-> Idle]

NextPromote ==
    \/ \E r \in Arriving, tripId \in Trips : AddFromWaitlist(r, tripId)
    \/ \E r \in Arriving, tripId \in Trips : AddDriver(r, tripId)
    \/ \E r \in Arriving, tripId \in Trips : AddNonDriver(r, tripId)
    \/ \E r \in Arriving, tripId \in Trips :
          \E participantId \in ParticipantIds(tripId) :
             ReAddParticipant(r, tripId, participantId)
    \/ \E r \in Slots : SignupsFetched(r)
    \/ \E r \in Slots : \E i \in DOMAIN reqs[r].tasks : UpdateDone(r, i)

SpecPromote == InitPromote /\ [][NextPromote]_vars

----------------------------------------------------------------------------
(* One randomize request and one approve request over every pool within the
   bounds; the client sends the proposal back with its ids in any order *)

InitCommit ==
    /\ sinceSweep = 0
    /\ proposedRosters = <<>>
    /\ \E d \in 0..1, n \in 0..1 :
          trips = [t \in {"t1"} |-> [cap |-> d + n, drv |-> d, nd |-> n]]
    /\ \E D \in 0..MaxCommitPool, N \in 0..MaxCommitPool :
          /\ signups = PoolTable(D, N)
          /\ status = Unknown(PoolTable(D, N))
    /\ reqs = [r \in {1, 2} |-> Idle]

NextCommit ==
    \/ \E r \in Arriving, tripId \in Trips : Randomize(r, tripId)
    \/ \E r \in Arriving : \E tripId \in DOMAIN proposedRosters :
          \E rosterIds \in Shuffles(proposedRosters[tripId].rosterIds),
             waitlistIds \in Shuffles(proposedRosters[tripId].waitlistIds) :
             ApproveRandomization(r, tripId, rosterIds, waitlistIds)
    \/ \E r \in Slots : ApproveFetched(r)
    \/ \E r \in Slots : \E i \in DOMAIN reqs[r].tasks : UpdateDone(r, i)

SpecCommit == InitCommit /\ [][NextCommit]_vars

\* the store answers every write: an updateSignup that was issued resolves
SpecCommitLive ==
    SpecCommit /\ WF_vars(\E r \in Slots : \E i \in DOMAIN reqs[r].tasks : UpdateDone(r, i))

----------------------------------------------------------------------------
(* Two requests, each a drop or a listing, over every store content within the
   bounds *)

\* the statuses of a table's signups by their kinds
KindStatus(flags, kinds) ==
    [id \in {"s" \o ToString(i) : i \in DOMAIN flags} |->
        LET i == CHOOSE i \in DOMAIN flags : "s" \o ToString(i) = id
        IN  StatusText(kinds[i], flags[i], i)]

InitList ==
    /\ sinceSweep = 0
    /\ proposedRosters = <<>>
    /\ trips = [t \in {"t1"} |-> [cap |-> 1, drv |-> 0, nd |-> 1]]
    /\ \E n \in 0..MaxListPool :
          \E D \in 0..n, kinds \in [1..n -> StatusKinds] :
             /\ signups = FlagTable([i \in 1..n |-> i <= D])
             /\ status = KindStatus([i \in 1..n |-> i <= D], kinds)
    /\ reqs = [r \in {1, 2} |-> Idle]

NextList ==
    \/ \E r \in Arriving, tripId \in Trips :
          \E participantId \in ParticipantIds(tripId), today \in Dates :
             DropParticipant(r, tripId, participantId, today)
    \/ \E r \in Arriving, tripId \in Trips : GetSignups(r, tripId)
    \/ \E r \in Slots : \E i \in DOMAIN reqs[r].tasks : UpdateDone(r, i)
    \/ \E r \in Slots : \E i \in DOMAIN reqs[r].tasks : UpdateFailed(r, i)

SpecList == InitList /\ [][NextList]_vars

----------------------------------------------------------------------------
(* The listing of one signup, over the statuses the handlers write and over
   free-text statuses *)

\* the statuses the handlers write
RosterStatuses == {"Selected (driver)", "Selected (nondriver)"}
WaitlistStatuses ==
    {"Waitlist (driver) - " \o ToString(k) : k \in 1..MaxPosition}
        \cup {"Waitlist (nondriver) - " \o ToString(k) : k \in 1..MaxPosition}
DroppedStatuses == {"Dropped- " \o format(today) : today \in Dates}

\* the legacy statuses of the store and the status of a record without one
LegacyStatuses == {"ON TRIP", "WAITLIST", "UNKNOWN"}

\* words an editor of the store may combine in the free-text Status field
StatusWords == {"Selected", "ON TRIP", "Waitlist", "Dropped-", "dropped", "on", "trip"}

\* the texts of 1 to n words, separated by blanks
RECURSIVE Phrases(_)
Phrases(n) ==
    IF n <= 1 THEN StatusWords
    ELSE Phrases(n - 1) \cup {p \o " " \o w : p \in Phrases(n - 1), w \in StatusWords}

InitClassify ==
    /\ sinceSweep = 0
    /\ proposedRosters = <<>>
    /\ trips = [t \in {"t1"} |-> [cap |-> 1, drv |-> 0, nd |-> 1]]
    /\ \E isDriver \in BOOLEAN :
          signups = FlagTable(<<isDriver>>)
    /\ \E st \in RosterStatuses \cup WaitlistStatuses \cup DroppedStatuses
                    \cup LegacyStatuses \cup Phrases(MaxWords) :
          status = [id \in {"s1"} |-> st]
    /\ reqs = [r \in 1..1 |-> Idle]

NextClassify ==
    \E r \in Arriving, tripId \in Trips : GetSignups(r, tripId)

SpecClassify == InitClassify /\ [][NextClassify]_vars

----------------------------------------------------------------------------
(* Requests served one after the other: a roster is drawn and approved, then
   participants are dropped and re-added *)

\* no request is being served
Quiet == \A q \in Slots : reqs[q].pc \in {"idle", "done"}

\* the slot of the next request, once the one before it has been answered
ArrivingNext == {r \in Arriving : Quiet}

InitSoft ==
    /\ sinceSweep = 0
    /\ proposedRosters = <<>>
    /\ trips = [t \in {"t1"} |-> [cap |-> 2, drv |-> 1, nd |-> 1]]
    /\ \E D \in 1..2, N \in 0..1 :
          /\ signups = PoolTable(D, N)
          /\ status = Unknown(PoolTable(D, N))
    /\ reqs = [r \in 1..MaxSoftReq |-> Idle]

NextSoft ==
    \/ \E r \in ArrivingNext, tripId \in Trips : Randomize(r, tripId)
    \/ \E r \in ArrivingNext : \E tripId \in DOMAIN proposedRosters :
          \E rosterIds \in Shuffles(proposedRosters[tripId].rosterIds),
             waitlistIds \in Shuffles(proposedRosters[tripId].waitlistIds) :
             ApproveRandomization(r, tripId, rosterIds, waitlistIds)
    \/ \E r \in ArrivingNext, tripId \in Trips :
          \E participantId \in ParticipantIds(tripId) :
             DropParticipant(r, tripId, participantId, Date(2026, 1, 5))
    \/ \E r \in ArrivingNext, tripId \in Trips :
          \E participantId \in ParticipantIds(tripId) :
             ReAddParticipant(r, tripId, participantId)
    \/ \E r \in Slots : ApproveFetched(r)
    \/ \E r \in Slots : SignupsFetched(r)
    \/ \E r \in Slots : \E i \in DOMAIN reqs[r].tasks : UpdateDone(r, i)

SpecSoft == InitSoft /\ [][NextSoft]_vars

----------------------------------------------------------------------------
(* Proposals and approvals against a store that may refuse a read or a write *)

FailTable ==
    << Signup("s1", "t1", TRUE), Signup("s2", "t1", TRUE), Signup("s3", "t1", FALSE) >>

InitFail ==
    /\ sinceSweep = 0
    /\ proposedRosters = <<>>
    /\ trips = [t \in {"t1"} |-> [cap |-> 2, drv |-> 1, nd |-> 1]]
    /\ signups = FailTable
    /\ status = Unknown(FailTable)
    /\ reqs = [r \in 1..MaxFailReq |-> Idle]

\* the bodies of a client that sends what a randomize call returned to it, or
\* sends again what it sent before
SentBodies(tripId) ==
    {<<reqs[q].rosterIds, reqs[q].waitlistIds>> :
        q \in {q \in Slots : /\ reqs[q].trip = tripId
                              /\ \/ reqs[q].op = "approve"
                                 \/ reqs[q].op = "randomize" /\ reqs[q].result = "ok"}}

NextFail ==
    \/ \E r \in Arriving, tripId \in Trips : Randomize(r, tripId)
    \/ \E r \in Arriving : \E tripId \in Trips : \E b \in SentBodies(tripId) :
          ApproveRandomization(r, tripId, b[1], b[2])
    \/ \E r \in Slots : ApproveFetched(r)
    \/ \E r \in Slots : ApproveFetchFailed(r)
    \/ \E r \in Slots : \E i \in DOMAIN reqs[r].tasks : UpdateDone(r, i)
    \/ \E r \in Slots : \E i \in DOMAIN reqs[r].tasks : UpdateFailed(r, i)

SpecFail == InitFail /\ [][NextFail]_vars

----------------------------------------------------------------------------
(* Every handler, one request at a time and without end, on a trip whose
   driver slots and non-driver capacity add up to its capacity *)

\* the response of request r was sent; the server is ready for the next request
Respond(r) ==
    /\ reqs[r].pc = "done"
    /\ reqs' = [reqs EXCEPT ![r] = Idle]
    /\ UNCHANGED <<sinceSweep, proposedRosters, trips, signups, status>>

InitSeq ==
    /\ sinceSweep = 0
    /\ proposedRosters = <<>>
    /\ \E cap \in 0..MaxSeqCap : \E drv \in 0..cap :
          trips = [t \in {"t1"} |-> [cap |-> cap, drv |-> drv, nd |-> cap - drv]]
    /\ \E n \in 0..MaxSeqPool :
          \E D \in 0..n, kinds \in [1..n -> StatusKinds] :
             /\ signups = FlagTable([i \in 1..n |-> i <= D])
             /\ status = KindStatus([i \in 1..n |-> i <= D], kinds)
    /\ Cardinality({id \in DOMAIN status : isOnRoster(status[id])}) <= trips["t1"].cap
    /\ reqs = [r \in 1..1 |-> Idle]

NextSeq ==
    \/ \E r \in Arriving, tripId \in Trips : Randomize(r, tripId)
    \/ \E r \in Arriving : \E tripId \in DOMAIN proposedRosters :
          \E rosterIds \in Shuffles(proposedRosters[tripId].rosterIds),
             waitlistIds \in Shuffles(proposedRosters[tripId].waitlistIds) :
             ApproveRandomization(r, tripId, rosterIds, waitlistIds)
    \/ \E r \in Arriving, tripId \in Trips : AddFromWaitlist(r, tripId)
    \/ \E r \in Arriving, tripId \in Trips : AddDriver(r, tripId)
    \/ \E r \in Arriving, tripId \in Trips : AddNonDriver(r, tripId)
    \/ \E r \in Arriving, tripId \in Trips :
          \E participantId \in ParticipantIds(tripId) :
             ReAddParticipant(r, tripId, participantId)
    \/ \E r \in Arriving, tripId \in Trips :
          \E participantId \in ParticipantIds(tripId) :
             DropParticipant(r, tripId, participantId, Date(2026, 1, 5))
    \/ \E r \in Slots : ApproveFetched(r)
    \/ \E r \in Slots : SignupsFetched(r)
    \/ \E r \in Slots : \E i \in DOMAIN reqs[r].tasks : UpdateDone(r, i)
    \/ \E r \in Slots : Respond(r)

SpecSeq == InitSeq /\ [][NextSeq]_vars

----------------------------------------------------------------------------
(* Randomize requests that overlap: each may wait for its reads while another
   arrives, reads, stores its proposal or is approved *)

RaceTable ==
    << Signup("s1", "t1", TRUE), Signup("s2", "t1", TRUE), Signup("s3", "t1", FALSE),
       Signup("s4", "t2", TRUE) >>

InitRace ==
    /\ sinceSweep = 0
    /\ proposedRosters = <<>>
    /\ trips = [t \in {"t1", "t2"} |-> [cap |-> 2, drv |-> 1, nd |-> 1]]
    /\ signups = RaceTable
    /\ status = Unknown(RaceTable)
    /\ reqs = [r \in 1..MaxRaceReq |-> Idle]

NextRace ==
    \/ \E r \in Arriving, tripId \in Trips : RandomizeTripRead(r, tripId)
    \/ \E r \in Slots : RandomizeSignupsFetched(r)
    \/ \E r \in Arriving : \E tripId \in Trips : \E b \in SentBodies(tripId) :
          ApproveRandomization(r, tripId, b[1], b[2])
    \/ \E r \in Slots : ApproveFetched(r)
    \/ \E r \in Slots : \E i \in DOMAIN reqs[r].tasks : UpdateDone(r, i)

SpecRace == InitRace /\ [][NextRace]_vars

----------------------------------------------------------------------------
(* Two promotion or readmit requests for one trip that overlap *)

OverlapTable ==
    << Signup("s1", "t1", FALSE), Signup("s2", "t1", TRUE), Signup("s3", "t1", TRUE) >>

\* one non-driver on the roster, one driver waiting and one driver dropped
OverlapStatus ==
    [i \in {"s1", "s2", "s3"} |->
        IF i = "s1" THEN "Selected (nondriver)"
        ELSE IF i = "s2" THEN "Waitlist (driver) - 1"
        ELSE "Dropped- 10/31/2026"]

InitOverlap ==
    /\ sinceSweep = 0
    /\ proposedRosters = <<>>
    /\ trips = [t \in {"t1"} |-> [cap |-> 2, drv |-> 1, nd |-> 1]]
    /\ signups = OverlapTable
    /\ status = OverlapStatus
    /\ reqs = [r \in {1, 2} |-> Idle]

NextOverlap ==
    \/ \E r \in Arriving, tripId \in Trips : AddFromWaitlist(r, tripId)
    \/ \E r \in Arriving, tripId \in Trips : AddDriver(r, tripId)
    \/ \E r \in Arriving, tripId \in Trips : AddNonDriver(r, tripId)
    \/ \E r \in Arriving, tripId \in Trips :
          \E participantId \in ParticipantIds(tripId) :
             ReAddParticipant(r, tripId, participantId)
    \/ \E r \in Slots : SignupsFetched(r)
    \/ \E r \in Slots : \E i \in DOMAIN reqs[r].tasks : UpdateDone(r, i)

SpecOverlap == InitOverlap /\ [][NextOverlap]_vars

----------------------------------------------------------------------------
(* One promotion on a store whose waitlist positions need not follow the order
   of the signup list *)

\* the statuses a signup with the given driver flag can hold: selected, or
\* waitlisted at any position
PickStatuses(isDriver) ==
    {SelectedStatus(isDriver)}
        \cup {(IF isDriver THEN "Waitlist (driver) - " ELSE "Waitlist (nondriver) - ")
                  \o ToString(k) : k \in 1..MaxPosition}

InitPick ==
    /\ sinceSweep = 0
    /\ proposedRosters = <<>>
    /\ \E cap \in 0..MaxCap : \E drv \in 0..cap :
          trips = [t \in {"t1"} |-> [cap |-> cap, drv |-> drv, nd |-> cap - drv]]
    /\ \E n \in 0..MaxPickPool :
          \E flags \in [1..n -> BOOLEAN] :
             /\ signups = FlagTable(flags)
             /\ status \in [{"s" \o ToString(i) : i \in 1..n} ->
                               PickStatuses(TRUE) \cup PickStatuses(FALSE)]
             /\ \A i \in 1..n : status["s" \o ToString(i)] \in PickStatuses(flags[i])
    /\ reqs = [r \in 1..1 |-> Idle]

NextPick ==
    \/ \E r \in Arriving, tripId \in Trips : AddFromWaitlist(r, tripId)
    \/ \E r \in Arriving, tripId \in Trips : AddDriver(r, tripId)
    \/ \E r \in Arriving, tripId \in Trips : AddNonDriver(r, tripId)
    \/ \E r \in Slots : SignupsFetched(r)
    \/ \E r \in Slots : \E i \in DOMAIN reqs[r].tasks : UpdateDone(r, i)

SpecPick == InitPick /\ [][NextPick]_vars

----------------------------------------------------------------------------
(* A proposal that waits in the cache while participants are dropped, promoted
   and re-added; one request at a time *)

StaleTable ==
    << Signup("s1", "t1", TRUE), Signup("s2", "t1", FALSE), Signup("s3", "t1", TRUE) >>

\* a driver on the roster, a non-driver and a driver waiting
StaleStatus ==
    [i \in {"s1", "s2", "s3"} |->
        IF i = "s1" THEN "Selected (driver)"
        ELSE IF i = "s2" THEN "Waitlist (nondriver) - 1"
        ELSE "Waitlist (driver) - 1"]

InitStale ==
    /\ sinceSweep = 0
    /\ proposedRosters = <<>>
    /\ trips = [t \in {"t1"} |-> [cap |-> 2, drv |-> 1, nd |-> 1]]
    /\ signups = StaleTable
    /\ status = StaleStatus
    /\ reqs = [r \in 1..MaxStaleReq |-> Idle]

NextStale ==
    \/ \E r \in ArrivingNext, tripId \in Trips : Randomize(r, tripId)
    \/ \E r \in ArrivingNext : \E tripId \in DOMAIN proposedRosters :
          \E rosterIds \in Shuffles(proposedRosters[tripId].rosterIds),
             waitlistIds \in Shuffles(proposedRosters[tripId].waitlistIds) :
             ApproveRandomization(r, tripId, rosterIds, waitlistIds)
    \/ \E r \in ArrivingNext, tripId \in Trips : AddFromWaitlist(r, tripId)
    \/ \E r \in ArrivingNext, tripId \in Trips :
          \E participantId \in ParticipantIds(tripId) :
             DropParticipant(r, tripId, participantId, Date(2026, 1, 5))
    \/ \E r \in ArrivingNext, tripId \in Trips :
          \E participantId \in ParticipantIds(tripId) :
             ReAddParticipant(r, tripId, participantId)
    \/ \E r \in Slots : ApproveFetched(r)
    \/ \E r \in Slots : SignupsFetched(r)
    \/ \E r \in Slots : \E i \in DOMAIN reqs[r].tasks : UpdateDone(r, i)

SpecStale == InitStale /\ [][NextStale]_vars

----------------------------------------------------------------------------
(* Two trips side by side: every handler, called for either trip and with any
   signup id the store holds *)

IsoTable ==
    << Signup("s1", "t1", TRUE), Signup("s2", "t1", FALSE), Signup("s3", "t2", TRUE),
       Signup("s4", "t2", FALSE) >>

IsoStatus ==
    [i \in {"s1", "s2", "s3", "s4"} |->
        IF i = "s1" THEN "Waitlist (driver) - 1"
        ELSE IF i = "s2" THEN "Dropped- 10/31/2026"
        ELSE IF i = "s3" THEN "Selected (driver)"
        ELSE "Waitlist (nondriver) - 1"]

InitIso ==
    /\ sinceSweep = 0
    /\ proposedRosters = <<>>
    /\ trips = [t \in {"t1", "t2"} |-> [cap |-> 2, drv |-> 1, nd |-> 1]]
    /\ signups = IsoTable
    /\ status = IsoStatus
    /\ reqs = [r \in {1, 2} |-> Idle]

\* the ids a client can name: the ids of the store's signups and one more
AnyIds == AllIds \cup {"s0"}

NextIso ==
    \/ \E r \in Arriving, tripId \in Trips : Randomize(r, tripId)
    \/ \E r \in Arriving : \E tripId \in DOMAIN proposedRosters :
          \E rosterIds \in Shuffles(proposedRosters[tripId].rosterIds),
             waitlistIds \in Shuffles(proposedRosters[tripId].waitlistIds) :
             ApproveRandomization(r, tripId, rosterIds, waitlistIds)
    \/ \E r \in Arriving, tripId \in Trips : AddFromWaitlist(r, tripId)
    \/ \E r \in Arriving, tripId \in Trips : AddDriver(r, tripId)
    \/ \E r \in Arriving, tripId \in Trips : AddNonDriver(r, tripId)
    \/ \E r \in Arriving, tripId \in Trips : \E participantId \in AnyIds :
          ReAddParticipant(r, tripId, participantId)
    \/ \E r \in Arriving, tripId \in Trips : \E participantId \in AnyIds :
          DropParticipant(r, tripId, participantId, Date(2026, 1, 5))
    \/ \E r \in Slots : ApproveFetched(r)
    \/ \E r \in Slots : SignupsFetched(r)
    \/ \E r \in Slots : \E i \in DOMAIN reqs[r].tasks : UpdateDone(r, i)

SpecIso == InitIso /\ [][NextIso]_vars

----------------------------------------------------------------------------
(* A numbered waitlist, and approve bodies of any id lists; one request at a
   time *)

QueueTable ==
    << Signup("s1", "t1", TRUE), Signup("s2", "t1", TRUE), Signup("s3", "t1", TRUE) >>

\* one driver on the roster, two drivers waiting at positions 1 and 2
QueueStatus ==
    [i \in {"s1", "s2", "s3"} |->
        IF i = "s1" THEN "Selected (driver)"
        ELSE IF i = "s2" THEN "Waitlist (driver) - 1"
        ELSE "Waitlist (driver) - 2"]

InitQueue ==
    /\ sinceSweep = 0
    /\ proposedRosters = <<>>
    /\ trips = [t \in {"t1"} |-> [cap |-> 1, drv |-> 1, nd |-> 0]]
    /\ signups = QueueTable
    /\ status = QueueStatus
    /\ reqs = [r \in {1, 2, 3} |-> Idle]

NextQueue ==
    \/ \E r \in ArrivingNext, tripId \in Trips : Randomize(r, tripId)
    \/ \E r \in ArrivingNext : \E tripId \in Trips : \E b \in ApproveBodies(tripId) :
          ApproveRandomization(r, tripId, b[1], b[2])
    \/ \E r \in ArrivingNext, tripId \in Trips : AddDriver(r, tripId)
    \/ \E r \in ArrivingNext, tripId \in Trips :
          \E participantId \in ParticipantIds(tripId) :
             DropParticipant(r, tripId, participantId, Date(2026, 1, 5))
    \/ \E r \in Slots : ApproveFetched(r)
    \/ \E r \in Slots : SignupsFetched(r)
    \/ \E r \in Slots : \E i \in DOMAIN reqs[r].tasks : UpdateDone(r, i)

SpecQueue == InitQueue /\ [][NextQueue]_vars







----------------------------------------------------------------------------
(* Properties of the approval handler and the proposal cache *)

\* request r is an approval that passed the validation against the cache
Passed(r) ==
    /\ reqs[r].op = "approve"
    /\ reqs[r].result \notin {"NoPendingProposal", "ProposalMismatch"}

\* request r is a randomize call that stored a proposal for tripId
Proposed(r, tripId) ==
    /\ reqs[r].op = "randomize"
    /\ reqs[r].result = "ok"
    /\ reqs[r].trip = tripId

\* C1: a proposal older than PROPOSAL_TTL when approve is called is treated as
\* absent, so every approval that passed validation found a proposal whose age
\* was at most the TTL, whether or not the sweep has run since.
C1_ExpiredProposalIsAbsent ==
    \A r \in Slots : Passed(r) => reqs[r].age <= PROPOSAL_TTL

\* C2: approve passes validation if and only if a proposal is cached for the
\* trip and the supplied rosterIds and waitlistIds are, as sets, equal to the
\* cached ones: every approval that passed carried exactly the id sets of the
\* proposal it consumed, and every body a client can send now passes exactly
\* when its sets equal the cached sets.
C2_ValidationIffSetEqual ==
    /\ \A r \in Slots :
          Passed(r) =>
             /\ Range(reqs[r].rosterIds) = Range(reqs[reqs[r].pid].rosterIds)
             /\ Range(reqs[r].waitlistIds) = Range(reqs[reqs[r].pid].waitlistIds)
    /\ \A tripId \in Trips : \A b \in ApproveBodies(tripId) :
          (Validate(proposedRosters, tripId, b[1], b[2]) = "ok")
             <=> /\ tripId \in DOMAIN proposedRosters
                 /\ Range(b[1]) = Range(proposedRosters[tripId].rosterIds)
                 /\ Range(b[2]) = Range(proposedRosters[tripId].waitlistIds)

\* C3: an approval rejected with NoPendingProposal or ProposalMismatch leaves
\* the proposal cache and every signup status as they were and issues no
\* write (no request gains an update in flight), and the proposal still cached
\* for the trip passes validation with its own id lists.
C3_RejectedApprovalChangesNothing ==
    [][\A r \in Slots :
          (/\ reqs[r].pc = "idle"
           /\ reqs'[r].op = "approve"
           /\ reqs'[r].result \in {"NoPendingProposal", "ProposalMismatch"})
          => /\ proposedRosters' = proposedRosters
             /\ status' = status
             /\ \A q \in Slots \ {r} : reqs'[q] = reqs[q]
             /\ reqs'[r].tasks = <<>> /\ reqs'[r].inflight = {}
             /\ reqs'[r].trip \in DOMAIN proposedRosters' =>
                   Validate(proposedRosters', reqs'[r].trip,
                            proposedRosters'[reqs'[r].trip].rosterIds,
                            proposedRosters'[reqs'[r].trip].waitlistIds) = "ok"]_vars

\* C3 witness: an approval was rejected as a mismatch and a later approval of
\* the same trip passed against the proposal that stayed cached.
C3_Witness ==
    \E r, q \in Slots :
        /\ r < q
        /\ reqs[r].op = "approve" /\ reqs[r].result = "ProposalMismatch"
        /\ Passed(q) /\ reqs[q].trip = reqs[r].trip
        /\ reqs[q].pid < r

\* C4: no cached proposal is committed twice: two approvals that passed
\* validation never consumed the same proposal, and once an approval has
\* passed, the proposal it consumed is out of the cache (from before its first
\* write on), so any other approval of it finds nothing.
C4_NoDoubleCommit ==
    /\ \A r, q \in Slots :
          (r # q /\ Passed(r) /\ Passed(q)) => reqs[r].pid # reqs[q].pid
    /\ \A r \in Slots :
          Passed(r) =>
             \A tripId \in DOMAIN proposedRosters :
                 proposedRosters[tripId].by # reqs[r].pid

\* C4 witness: while one approval is still writing, a second approval of the
\* same trip has already failed with NoPendingProposal.
C4_Witness ==
    \E r, q \in Slots :
        /\ Passed(r) /\ reqs[r].pc = "writing"
        /\ reqs[q].op = "approve" /\ reqs[q].trip = reqs[r].trip
        /\ reqs[q].result = "NoPendingProposal"

\* no approval passed validation for tripId between the requests r1 and r2
NoApprovalBetween(r1, r2, tripId) ==
    \A q \in Slots : ~(r1 < q /\ q < r2 /\ Passed(q) /\ reqs[q].trip = tripId)

\* C5 as stated: after two propose calls for one trip with no approval in
\* between, while the second proposal is the cached one, an approve carrying
\* the id lists the first call returned fails.
C5_StaleApprovalFails ==
    \A tripId \in DOMAIN proposedRosters : \A r1, r2 \in Slots :
        (/\ r1 < r2 /\ Proposed(r1, tripId) /\ Proposed(r2, tripId)
         /\ NoApprovalBetween(r1, r2, tripId)
         /\ proposedRosters[tripId].by = r2)
        => Validate(proposedRosters, tripId,
                    reqs[r1].rosterIds, reqs[r1].waitlistIds) # "ok"

\* the two proposals differ as sets in the roster or in the waitlist
SetsDiffer(r1, r2) ==
    \/ Range(reqs[r1].rosterIds) # Range(reqs[r2].rosterIds)
    \/ Range(reqs[r1].waitlistIds) # Range(reqs[r2].waitlistIds)

\* C5 amended: the cache holds for a trip only the proposal of the latest
\* propose call, with the id lists that call returned; and after two propose
\* calls with no approval in between, an approve carrying the id lists of the
\* first fails whenever they differ, as sets, from those of the second.
C5_StaleApprovalFailsIfDifferent ==
    \A tripId \in DOMAIN proposedRosters :
        /\ Proposed(proposedRosters[tripId].by, tripId)
        /\ \A r \in Slots : Proposed(r, tripId) => r <= proposedRosters[tripId].by
        /\ proposedRosters[tripId].rosterIds = reqs[proposedRosters[tripId].by].rosterIds
        /\ proposedRosters[tripId].waitlistIds = reqs[proposedRosters[tripId].by].waitlistIds
        /\ \A r1, r2 \in Slots :
              (/\ r1 < r2 /\ Proposed(r1, tripId) /\ Proposed(r2, tripId)
               /\ NoApprovalBetween(r1, r2, tripId)
               /\ proposedRosters[tripId].by = r2
               /\ SetsDiffer(r1, r2))
              => Validate(proposedRosters, tripId,
                          reqs[r1].rosterIds, reqs[r1].waitlistIds) # "ok"

\* C5 witness: two propose calls for one trip returned different proposals and
\* the second one is cached.
C5_Witness ==
    \E tripId \in DOMAIN proposedRosters : \E r1, r2 \in Slots :
        /\ r1 < r2 /\ Proposed(r1, tripId) /\ Proposed(r2, tripId)
        /\ NoApprovalBetween(r1, r2, tripId)
        /\ proposedRosters[tripId].by = r2
        /\ SetsDiffer(r1, r2)

----------------------------------------------------------------------------
(* Properties of the allocator *)

IsDriverId(id) == (CHOOSE s \in Range(signups) : s.id = id).isDriver

DriverIdsOf(tripId) == {s.id : s \in {x \in Range(signups) : x.trip = tripId /\ x.isDriver}}
NonDriverIdsOf(tripId) == {s.id : s \in {x \in Range(signups) : x.trip = tripId /\ ~x.isDriver}}

\* number of positions of the id list ids whose signup has the given driver flag
CountFlag(ids, flag) == Cardinality({i \in DOMAIN ids : IsDriverId(ids[i]) = flag})

\* request r is a randomize call that returned a proposal
Allocated(r) == reqs[r].op = "randomize" /\ reqs[r].result = "ok"

\* C6 as stated: every proposal selects at most the trip's total capacity
\* (Capacity (Including leads)) and at most driverSlotsNeeded drivers.
C6_WithinTotalCapacity ==
    \A r \in Slots :
        Allocated(r) =>
           /\ Len(reqs[r].selD) + Len(reqs[r].selND) <= trips[reqs[r].trip].cap
           /\ Len(reqs[r].selD) <= trips[reqs[r].trip].drv

\* C6 amended: every proposal selects at most driverSlotsNeeded +
\* nonDriverSlotsNeeded signups, hence at most the total capacity for every
\* trip whose driver slots and non-driver capacity sum to at most the total
\* capacity, and it selects at most driverSlotsNeeded drivers.
C6_WithinSlotCounts ==
    \A r \in Slots :
        Allocated(r) =>
           LET trip == trips[reqs[r].trip]
               selected == Len(reqs[r].selD) + Len(reqs[r].selND)
           IN  /\ selected <= trip.drv + trip.nd
               /\ trip.drv + trip.nd <= trip.cap => selected <= trip.cap
               /\ Len(reqs[r].selD) <= trip.drv

\* C6 witness: both kinds of slots are needed, the proposal fills the trip's
\* total capacity exactly and still leaves signups for the waitlist.
C6_Witness ==
    \E r \in Slots :
        /\ Allocated(r)
        /\ trips[reqs[r].trip].drv > 0 /\ trips[reqs[r].trip].nd > 0
        /\ trips[reqs[r].trip].drv + trips[reqs[r].trip].nd = trips[reqs[r].trip].cap
        /\ Len(reqs[r].selD) + Len(reqs[r].selND) = trips[reqs[r].trip].cap
        /\ reqs[r].waitlistIds # <<>>

\* C7: with D driver-eligible and N non-driver-eligible signups and d driver
\* and n non-driver slots needed, a proposal has min(d, D) selected drivers, a
\* selected-non-driver list of min(n, N) non-driver-eligible signups plus
\* min(max(0, n - N), max(0, D - d)) driver-eligible signups that are not among
\* the selected drivers, and a waitlist that is exactly the remaining signups.
C7_BackfillCorrect ==
    \A r \in Slots :
        Allocated(r) =>
           LET tripId == reqs[r].trip
               D == Cardinality(DriverIdsOf(tripId))
               N == Cardinality(NonDriverIdsOf(tripId))
               d == trips[tripId].drv
               n == trips[tripId].nd
               selD == reqs[r].selD
               selND == reqs[r].selND
               wl == reqs[r].waitlistIds
           IN  /\ Len(selD) = Min(d, D)
               /\ Cardinality(Range(selD)) = Len(selD)
               /\ CountFlag(selND, FALSE) = Min(n, N)
               /\ CountFlag(selND, TRUE) = Min(Max(0, n - N), Max(0, D - d))
               /\ Cardinality(Range(selND)) = Len(selND)
               /\ Range(selD) \cap Range(selND) = {}
               /\ reqs[r].rosterIds = selD \o selND
               /\ Range(wl) = (DriverIdsOf(tripId) \cup NonDriverIdsOf(tripId))
                                 \ (Range(selD) \cup Range(selND))
               /\ Cardinality(Range(wl)) = Len(wl)

\* C7 witness: D = 5, d = 2, N = 1, n = 3 gave 2 selected drivers, the one
\* non-driver plus 2 drivers in the non-driver slots, and 1 driver waitlisted.
C7_Witness ==
    \E r \in Slots :
        /\ Allocated(r)
        /\ Cardinality(DriverIdsOf(reqs[r].trip)) = 5
        /\ Cardinality(NonDriverIdsOf(reqs[r].trip)) = 1
        /\ trips[reqs[r].trip].drv = 2 /\ trips[reqs[r].trip].nd = 3
        /\ Len(reqs[r].selD) = 2
        /\ CountFlag(reqs[r].selND, FALSE) = 1 /\ CountFlag(reqs[r].selND, TRUE) = 2
        /\ Len(reqs[r].waitlistIds) = 1 /\ IsDriverId(reqs[r].waitlistIds[1])

\* C8: every selected driver has the driver flag, and the proposed roster has
\* at most nonDriverSlotsNeeded members without the flag.
C8_NoSymmetricBackfill ==
    \A r \in Slots :
        Allocated(r) =>
           /\ \A i \in DOMAIN reqs[r].selD : IsDriverId(reqs[r].selD[i])
           /\ CountFlag(reqs[r].rosterIds, FALSE) <= trips[reqs[r].trip].nd

\* C8 witness: driver slots stayed unfilled while a non-driver-eligible signup
\* was put on the waitlist.
C8_Witness ==
    \E r \in Slots :
        /\ Allocated(r)
        /\ Len(reqs[r].selD) < trips[reqs[r].trip].drv
        /\ CountFlag(reqs[r].waitlistIds, FALSE) > 0

----------------------------------------------------------------------------
(* Frame and preconditions of the randomize handler *)

\* C9: a randomize call, successful or failing, writes no signup status and
\* starts no write; apart from its own request record it changes at most the
\* cache entry of the requested trip.
C9_ProposeIsWriteFree ==
    [][\A r \in Slots :
          (reqs[r].pc = "idle" /\ reqs'[r].op = "randomize")
          => /\ status' = status
             /\ signups' = signups /\ trips' = trips
             /\ \A q \in Slots \ {r} : reqs'[q] = reqs[q]
             /\ reqs'[r].tasks = <<>> /\ reqs'[r].inflight = {}
             /\ \A k \in ((DOMAIN proposedRosters) \cup (DOMAIN proposedRosters'))
                             \ {reqs'[r].trip} :
                   /\ k \in DOMAIN proposedRosters
                   /\ k \in DOMAIN proposedRosters'
                   /\ proposedRosters'[k] = proposedRosters[k]]_vars

\* C9 witness: a proposal was stored for one trip while the proposal of
\* another trip was cached, and that one is still there.
C9_Witness ==
    \E r \in Slots : \E k \in DOMAIN proposedRosters :
        /\ Allocated(r)
        /\ k # reqs[r].trip
        /\ proposedRosters[k].by < r

\* C10: a randomize call for a trip whose driver-slots-needed and
\* non-driver-slots-needed are both zero fails with InvalidCapacity, one for a
\* trip with capacity but no signups fails with EmptyPool, and a failing call
\* stores nothing and leaves the whole cache, the trip's entry included, as it
\* was.
C10_ProposePreconditions ==
    [][\A r \in Slots :
          (reqs[r].pc = "idle" /\ reqs'[r].op = "randomize")
          => LET tripId == reqs'[r].trip
                 noCapacity == trips[tripId].drv = 0 /\ trips[tripId].nd = 0
                 noSignups == \A s \in Range(signups) : s.trip # tripId
             IN  /\ noCapacity => reqs'[r].result = "InvalidCapacity"
                 /\ (noSignups /\ ~noCapacity) => reqs'[r].result = "EmptyPool"
                 /\ (noCapacity \/ noSignups) => proposedRosters' = proposedRosters
                 /\ reqs'[r].result # "ok" => proposedRosters' = proposedRosters]_vars

\* C10 witness: a randomize call failed with InvalidCapacity while a proposal
\* stored earlier for the same trip is still cached.
C10_Witness ==
    \E r \in Slots :
        /\ reqs[r].op = "randomize"
        /\ reqs[r].result = "InvalidCapacity"
        /\ reqs[r].trip \in DOMAIN proposedRosters
        /\ proposedRosters[reqs[r].trip].by < r

----------------------------------------------------------------------------
(* Properties of the approval's writes *)

\* positions of the id list ids, up to position j, whose signup has the flag
\* of the signup at position j
RankInSubList(ids, j) ==
    Cardinality({k \in 1..j : IsDriverId(ids[k]) = IsDriverId(ids[j])})

\* the updates among tasks whose status starts with the given text
UpdatesWithPrefix(tasks, prefix) ==
    {t \in DOMAIN tasks :
        /\ Len(tasks[t].status) >= Len(prefix)
        /\ SubSeq(tasks[t].status, 1, Len(prefix)) = prefix}

\* C11: when a validated approval has fetched the signups, its updates give
\* every roster id "Selected (driver)" or "Selected (nondriver)" by the driver
\* flag of its signup, and give the waitlist id at position j the status
\* "Waitlist (driver) - k" or "Waitlist (nondriver) - k" by its flag, where k
\* counts the ids with that flag up to j in the supplied order; each sub-queue
\* has one update per position 1..m; and every write puts the status of its
\* update on the signup of its update.
C11_ApprovalStatusAssignment ==
    [][\A r \in Slots :
          /\ (reqs[r].pc = "fetching" /\ reqs'[r].pc # "fetching") =>
                LET tasks == reqs'[r].tasks
                    rosterIds == reqs[r].rosterIds
                    waitlistIds == reqs[r].waitlistIds
                    n == Len(rosterIds)
                IN  /\ Len(tasks) = n + Len(waitlistIds)
                    /\ \A i \in 1..n :
                          /\ tasks[i].id = rosterIds[i]
                          /\ tasks[i].status =
                                IF IsDriverId(rosterIds[i]) THEN "Selected (driver)"
                                ELSE "Selected (nondriver)"
                    /\ \A j \in DOMAIN waitlistIds :
                          \E t \in (n + 1)..Len(tasks) :
                             /\ tasks[t].id = waitlistIds[j]
                             /\ tasks[t].status =
                                   (IF IsDriverId(waitlistIds[j])
                                    THEN "Waitlist (driver) - "
                                    ELSE "Waitlist (nondriver) - ")
                                   \o ToString(RankInSubList(waitlistIds, j))
                    /\ \A prefix \in {"Waitlist (driver) - ", "Waitlist (nondriver) - "} :
                          LET ts == UpdatesWithPrefix(tasks, prefix)
                          IN  {tasks[t].status : t \in ts}
                                 = {prefix \o ToString(k) : k \in 1..Cardinality(ts)}
          /\ \A i \in reqs[r].inflight \ reqs'[r].inflight :
                status'[reqs[r].tasks[i].id] = reqs[r].tasks[i].status]_vars

\* C11 witness: an approval whose waitlist was supplied with a non-driver
\* ahead of two drivers has finished, and the statuses on the store number
\* the two drivers 1 and 2 in the supplied order and the non-driver 1.
C11_Witness ==
    \E r \in Slots :
        /\ Passed(r) /\ reqs[r].pc = "done"
        /\ Len(reqs[r].waitlistIds) >= 3
        /\ ~IsDriverId(reqs[r].waitlistIds[1])
        /\ IsDriverId(reqs[r].waitlistIds[2]) /\ IsDriverId(reqs[r].waitlistIds[3])
        /\ status[reqs[r].waitlistIds[1]] = "Waitlist (nondriver) - 1"
        /\ status[reqs[r].waitlistIds[2]] = "Waitlist (driver) - 1"
        /\ status[reqs[r].waitlistIds[3]] = "Waitlist (driver) - 2"
        /\ \E i \in DOMAIN reqs[r].rosterIds :
              status[reqs[r].rosterIds[i]] = "Selected (nondriver)"

\* C12: during the write phase of an approval at most 2 of its status writes
\* are in flight at any moment, the writes in flight are updates it has
\* issued, and when the store answers every write, every update the approval
\* emitted is eventually issued and the approval finishes with none left.
C12_BoundedWritesAllIssued ==
    /\ [](\A r \in Slots :
             reqs[r].op = "approve" =>
                /\ Cardinality(reqs[r].inflight) <= 2
                /\ reqs[r].inflight \subseteq 1..reqs[r].started
                /\ reqs[r].started <= Len(reqs[r].tasks))
    /\ \A r \in {1, 2} :
          [](reqs[r].pc = "writing" =>
                <>(/\ reqs[r].pc = "done"
                   /\ reqs[r].started = Len(reqs[r].tasks)
                   /\ reqs[r].inflight = {}))

\* C12 witness: an approval with more than two updates has two writes in
\* flight and an update still waiting for the limiter.
C12_Witness ==
    \E r \in Slots :
        /\ reqs[r].op = "approve" /\ reqs[r].pc = "writing"
        /\ Cardinality(reqs[r].inflight) = 2
        /\ reqs[r].started < Len(reqs[r].tasks)

\* the status writes of approvals that are outstanding at the store
OutstandingApprovalWrites ==
    UNION {{<<r, i>> : i \in reqs[r].inflight} :
              r \in {q \in Slots : reqs[q].op = "approve"}}

\* C13: at every moment the store has at most 2 outstanding status writes
\* issued by approvals, all approvals in their write phase taken together.
C13_AtMostTwoOutstandingWrites ==
    Cardinality(OutstandingApprovalWrites) <= 2

----------------------------------------------------------------------------
(* Properties of the promotion handlers *)

PromotionOps == {"addFromWaitlist", "addDriver", "addNonDriver", "reAddParticipant"}

\* the ids of the trip's signups, and those of them with the given driver flag
\* that are classified as roster or as waitlist
TripIds(tripId) == {s.id : s \in {x \in Range(signups) : x.trip = tripId}}
FlagIds(tripId, flag) ==
    {s.id : s \in {x \in Range(signups) : x.trip = tripId /\ x.isDriver = flag}}
RosterIdsOf(tripId) == {id \in TripIds(tripId) : isOnRoster(status[id])}
WaitlistIdsOf(tripId) == {id \in TripIds(tripId) : isOnWaitlist(status[id])}
RosterCount(tripId, flag) == Cardinality(RosterIdsOf(tripId) \cap FlagIds(tripId, flag))
Waitlisted(tripId, flag) == WaitlistIdsOf(tripId) \cap FlagIds(tripId, flag)

\* what the handlers compare: roster size against capacity, and the spots left
RosterIsFull(tripId) == Cardinality(RosterIdsOf(tripId)) >= trips[tripId].cap
DriverSpots(tripId) == trips[tripId].drv - RosterCount(tripId, TRUE)
NonDriverSpots(tripId) ==
    (trips[tripId].cap - trips[tripId].drv) - RosterCount(tripId, FALSE)

\* in this step the handler of request r, of operation op, gets the trip's
\* signups and decides
Decides(r, op) ==
    reqs[r].op = op /\ reqs[r].pc = "reading" /\ reqs'[r].pc # "reading"

\* in this step request r is refused with the given error and writes nothing
RefusedWith(r, error) ==
    /\ reqs'[r].pc = "done" /\ reqs'[r].result = error
    /\ reqs'[r].tasks = <<>> /\ reqs'[r].inflight = {}
    /\ status' = status

\* in this step request r issues one write: newStatus for one of the ids
PromotesOneOf(r, ids, newStatus) ==
    /\ reqs'[r].pc = "writing"
    /\ Len(reqs'[r].tasks) = 1 /\ reqs'[r].inflight = {1}
    /\ reqs'[r].tasks[1].id \in ids
    /\ reqs'[r].tasks[1].status = newStatus

\* request r is a finished, successful request of operation op
Succeeded(r, op) ==
    reqs[r].op = op /\ reqs[r].pc = "done" /\ reqs[r].result = "ok"

\* C14: when promoteNext decides with the roster below capacity and both a
\* driver spot and a non-driver spot open, it promotes a waitlisted driver to
\* "Selected (driver)" if one is waitlisted, a waitlisted non-driver to
\* "Selected (nondriver)" if only non-drivers are waitlisted, and is refused
\* with WaitlistEmpty if nobody is waitlisted.
C14_PromotionPriority ==
    [][\A r \in Slots :
          LET t == reqs[r].trip
          IN  (/\ Decides(r, "addFromWaitlist")
               /\ ~RosterIsFull(t) /\ DriverSpots(t) > 0 /\ NonDriverSpots(t) > 0)
              => /\ Waitlisted(t, TRUE) # {} =>
                       PromotesOneOf(r, Waitlisted(t, TRUE), "Selected (driver)")
                 /\ (Waitlisted(t, TRUE) = {} /\ Waitlisted(t, FALSE) # {}) =>
                       PromotesOneOf(r, Waitlisted(t, FALSE), "Selected (nondriver)")
                 /\ WaitlistIdsOf(t) = {} => RefusedWith(r, "WaitlistEmpty")]_vars

\* C14 witness: promoteNext has put a driver on the roster of a trip that had
\* a driver spot and a non-driver spot open, while a non-driver was, and still
\* is, waitlisted.
C14_Witness ==
    \E r \in Slots :
        /\ Succeeded(r, "addFromWaitlist")
        /\ IsDriverId(reqs[r].tasks[1].id)
        /\ status[reqs[r].tasks[1].id] = "Selected (driver)"
        /\ Waitlisted(reqs[r].trip, FALSE) # {}
        /\ DriverSpots(reqs[r].trip) >= 0
        /\ NonDriverSpots(reqs[r].trip) > 0
        /\ Cardinality(RosterIdsOf(reqs[r].trip)) <= trips[reqs[r].trip].cap

\* C15 as stated: when promoteNext decides with the roster below capacity and
\* only driver spots open, it promotes a waitlisted driver if there is one and
\* is otherwise, an empty waitlist included, refused with
\* NoDriversOnWaitlist; with only non-driver spots open it promotes a
\* waitlisted non-driver or is refused with NoNonDriversOnWaitlist.
C15_OneSpotTypeOpen ==
    [][\A r \in Slots :
          LET t == reqs[r].trip
          IN  (Decides(r, "addFromWaitlist") /\ ~RosterIsFull(t)) =>
                 /\ (DriverSpots(t) > 0 /\ NonDriverSpots(t) <= 0) =>
                       IF Waitlisted(t, TRUE) # {}
                       THEN PromotesOneOf(r, Waitlisted(t, TRUE), "Selected (driver)")
                       ELSE RefusedWith(r, "NoDriversOnWaitlist")
                 /\ (NonDriverSpots(t) > 0 /\ DriverSpots(t) <= 0) =>
                       IF Waitlisted(t, FALSE) # {}
                       THEN PromotesOneOf(r, Waitlisted(t, FALSE), "Selected (nondriver)")
                       ELSE RefusedWith(r, "NoNonDriversOnWaitlist")]_vars

\* C15 amended: as above, except that with nobody on the waitlist the request
\* is refused with WaitlistEmpty, whichever spot type is open.
C15_OneSpotTypeOpenNonEmptyWaitlist ==
    [][\A r \in Slots :
          LET t == reqs[r].trip
          IN  (Decides(r, "addFromWaitlist") /\ ~RosterIsFull(t)) =>
                 /\ WaitlistIdsOf(t) = {} => RefusedWith(r, "WaitlistEmpty")
                 /\ (WaitlistIdsOf(t) # {} /\ DriverSpots(t) > 0 /\ NonDriverSpots(t) <= 0) =>
                       IF Waitlisted(t, TRUE) # {}
                       THEN PromotesOneOf(r, Waitlisted(t, TRUE), "Selected (driver)")
                       ELSE RefusedWith(r, "NoDriversOnWaitlist")
                 /\ (WaitlistIdsOf(t) # {} /\ NonDriverSpots(t) > 0 /\ DriverSpots(t) <= 0) =>
                       IF Waitlisted(t, FALSE) # {}
                       THEN PromotesOneOf(r, Waitlisted(t, FALSE), "Selected (nondriver)")
                       ELSE RefusedWith(r, "NoNonDriversOnWaitlist")]_vars

\* C15 witness: promoteNext was refused with NoDriversOnWaitlist on a trip with
\* an open driver spot, no open non-driver spot and a non-driver waitlisted.
C15_Witness ==
    \E r \in Slots :
        /\ reqs[r].op = "addFromWaitlist" /\ reqs[r].result = "NoDriversOnWaitlist"
        /\ ~RosterIsFull(reqs[r].trip)
        /\ DriverSpots(reqs[r].trip) > 0 /\ NonDriverSpots(reqs[r].trip) <= 0
        /\ Waitlisted(reqs[r].trip, FALSE) # {}

\* C16: when promoteNext, promoteDriver, promoteNonDriver or readmit of an id
\* among the trip's signups decides with a roster of at least the trip's
\* capacity, it is refused with RosterFull and writes nothing, whatever the
\* waitlist holds.
C16_RosterFullFirst ==
    [][\A r \in Slots : \A op \in PromotionOps :
          (/\ Decides(r, op)
           /\ RosterIsFull(reqs[r].trip)
           /\ op = "reAddParticipant" => reqs[r].participantId \in TripIds(reqs[r].trip))
          => RefusedWith(r, "RosterFull")]_vars

\* C16 witness: promoteNext was refused with RosterFull on a trip with a
\* non-empty roster at capacity and nobody waitlisted.
C16_Witness ==
    \E r \in Slots :
        /\ reqs[r].op = "addFromWaitlist" /\ reqs[r].result = "RosterFull"
        /\ trips[reqs[r].trip].cap > 0
        /\ Cardinality(RosterIdsOf(reqs[r].trip)) = trips[reqs[r].trip].cap
        /\ WaitlistIdsOf(reqs[r].trip) = {}

\* C17: promoteDriver is refused with RosterFull when the roster has reached
\* the capacity, else with NoDriverSpots when driverSlots minus the roster's
\* drivers is not positive, else with NoDriversOnWaitlist when no driver is
\* waitlisted, and in every other case, and in no other, writes
\* "Selected (driver)" to a waitlisted driver; the write done, that signup has
\* that status.
C17_DriverOnlyPromote ==
    [][\A r \in Slots :
          LET t == reqs[r].trip
          IN  /\ Decides(r, "addDriver") =>
                    IF RosterIsFull(t) THEN RefusedWith(r, "RosterFull")
                    ELSE IF DriverSpots(t) <= 0 THEN RefusedWith(r, "NoDriverSpots")
                    ELSE IF Waitlisted(t, TRUE) = {}
                    THEN RefusedWith(r, "NoDriversOnWaitlist")
                    ELSE PromotesOneOf(r, Waitlisted(t, TRUE), "Selected (driver)")
              /\ (reqs[r].op = "addDriver" /\ reqs[r].pc = "writing"
                     /\ reqs'[r].pc = "done")
                 => /\ reqs'[r].result = "ok"
                    /\ status'[reqs[r].tasks[1].id] = "Selected (driver)"]_vars

\* C17 witness: on the trip of capacity 10 with 3 driver slots, promoteDriver
\* succeeded and the roster has 3 drivers and 5 non-drivers and the waitlist is
\* empty.
C17_Witness ==
    \E r \in Slots :
        /\ Succeeded(r, "addDriver")
        /\ trips[reqs[r].trip].cap = 10 /\ trips[reqs[r].trip].drv = 3
        /\ RosterCount(reqs[r].trip, TRUE) = 3
        /\ RosterCount(reqs[r].trip, FALSE) = 5
        /\ WaitlistIdsOf(reqs[r].trip) = {}

\* the outcome of promoteNonDriver by the checks in their order
NonDriverOnlyOutcome(r) ==
    LET t == reqs[r].trip
    IN  IF RosterIsFull(t) THEN RefusedWith(r, "RosterFull")
        ELSE IF NonDriverSpots(t) <= 0 THEN RefusedWith(r, "NoNonDriverSpots")
        ELSE IF Waitlisted(t, FALSE) = {} THEN RefusedWith(r, "NoNonDriversOnWaitlist")
        ELSE PromotesOneOf(r, Waitlisted(t, FALSE), "Selected (nondriver)")

\* C18 as stated: promoteNonDriver is refused with RosterFull, NoNonDriverSpots
\* or NoNonDriversOnWaitlist, checked in that order, and otherwise writes
\* "Selected (nondriver)" to a waitlisted non-driver; and the non-driver
\* capacity it uses, capacity - driverSlots, equals the non-driver capacity the
\* allocator uses for the trip.
C18_NonDriverOnlyPromote ==
    [][\A r \in Slots :
          Decides(r, "addNonDriver") =>
             /\ NonDriverOnlyOutcome(r)
             /\ trips[reqs[r].trip].cap - trips[reqs[r].trip].drv
                   = trips[reqs[r].trip].nd]_vars

\* C18 amended: the outcome is as stated, with the non-driver capacity
\* capacity - driverSlots; the write done, the signup has the status
\* "Selected (nondriver)"; the allocator's non-driver capacity is the trip's
\* own field, which need not be the difference.
C18_NonDriverOnlyPromoteOwnCapacity ==
    [][\A r \in Slots :
          /\ Decides(r, "addNonDriver") => NonDriverOnlyOutcome(r)
          /\ (reqs[r].op = "addNonDriver" /\ reqs[r].pc = "writing"
                 /\ reqs'[r].pc = "done")
             => /\ reqs'[r].result = "ok"
                /\ status'[reqs[r].tasks[1].id] = "Selected (nondriver)"]_vars

\* C18 witness: promoteNonDriver succeeded on a trip whose roster then holds
\* more non-drivers than the non-driver capacity the allocator uses.
C18_Witness ==
    \E r \in Slots :
        /\ Succeeded(r, "addNonDriver")
        /\ status[reqs[r].tasks[1].id] = "Selected (nondriver)"
        /\ RosterCount(reqs[r].trip, FALSE) > trips[reqs[r].trip].nd
        /\ RosterCount(reqs[r].trip, FALSE)
              <= trips[reqs[r].trip].cap - trips[reqs[r].trip].drv

\* C19: readmit is refused with ParticipantNotFound when the id is not among
\* the trip's signups, else with RosterFull when the roster has reached the
\* capacity, else with NoDriverSpots (driver flag, no driver spot) or
\* NoNonDriverSpots (no driver flag, no non-driver spot), and otherwise writes
\* "Selected (driver)" or "Selected (nondriver)" by the participant's flag to
\* that participant.
C19_Readmit ==
    [][\A r \in Slots :
          LET t == reqs[r].trip
              id == reqs[r].participantId
          IN  Decides(r, "reAddParticipant") =>
                 IF id \notin TripIds(t) THEN RefusedWith(r, "ParticipantNotFound")
                 ELSE IF RosterIsFull(t) THEN RefusedWith(r, "RosterFull")
                 ELSE IF IsDriverId(id) /\ DriverSpots(t) <= 0
                 THEN RefusedWith(r, "NoDriverSpots")
                 ELSE IF ~IsDriverId(id) /\ NonDriverSpots(t) <= 0
                 THEN RefusedWith(r, "NoNonDriverSpots")
                 ELSE PromotesOneOf(r, {id},
                                    IF IsDriverId(id) THEN "Selected (driver)"
                                    ELSE "Selected (nondriver)")]_vars

\* C19 witness: a readmit of a non-driver succeeded on a trip without an open
\* driver spot, and the participant is on the roster as "Selected (nondriver)".
C19_Witness ==
    \E r \in Slots :
        /\ Succeeded(r, "reAddParticipant")
        /\ ~IsDriverId(reqs[r].participantId)
        /\ status[reqs[r].participantId] = "Selected (nondriver)"
        /\ reqs[r].participantId \in RosterIdsOf(reqs[r].trip)
        /\ DriverSpots(reqs[r].trip) <= 0

\* C20: a promoteNext, promoteDriver, promoteNonDriver or readmit request
\* never changes the proposal cache; while it arrives, reads and decides, no
\* status changes; a refused request has issued no write; a request that is
\* not refused issues exactly one write, which sets the status of its one
\* signup and of no other, and then reports success.
C20_PromotionFrame ==
    [][\A r \in Slots :
          (reqs'[r].op \in PromotionOps /\ reqs'[r] # reqs[r]) =>
             /\ proposedRosters' = proposedRosters
             /\ signups' = signups /\ trips' = trips
             /\ \A q \in Slots \ {r} : reqs'[q] = reqs[q]
             /\ reqs[r].pc # "writing" => status' = status
             /\ reqs'[r].pc = "reading" => reqs'[r].tasks = <<>>
             /\ (reqs'[r].pc = "done" /\ reqs'[r].result # "ok") =>
                   reqs'[r].tasks = <<>> /\ reqs[r].tasks = <<>>
             /\ reqs'[r].pc = "writing" =>
                   /\ Len(reqs'[r].tasks) = 1
                   /\ reqs'[r].inflight = {1}
             /\ reqs[r].pc = "writing" =>
                   /\ reqs'[r].pc = "done" /\ reqs'[r].result = "ok"
                   /\ reqs'[r].tasks = reqs[r].tasks
                   /\ status'[reqs[r].tasks[1].id] = reqs[r].tasks[1].status
                   /\ \A id \in (DOMAIN status) \ {reqs[r].tasks[1].id} :
                         status'[id] = status[id]
                   /\ DOMAIN status' = DOMAIN status]_vars

\* C20 witness: a promotion has put a driver on the roster while a proposal
\* for its trip, stored before the request arrived, is still cached, and
\* another signup of the trip has its roster status as before.
C20_Witness ==
    \E r \in Slots :
        /\ reqs[r].op \in PromotionOps /\ reqs[r].pc = "done" /\ reqs[r].result = "ok"
        /\ reqs[r].trip \in DOMAIN proposedRosters
        /\ proposedRosters[reqs[r].trip].by < r
        /\ status[reqs[r].tasks[1].id] = "Selected (driver)"
        /\ \E id \in TripIds(reqs[r].trip) \ {reqs[r].tasks[1].id} :
              status[id] = "Selected (nondriver)"

----------------------------------------------------------------------------
(* Properties of the drop handler and the listing *)

\* the marker a drop on the given day writes
DroppedOn(today) ==
    IF today = Date(2026, 1, 5) THEN "Dropped- 01/05/2026"
    ELSE IF today = Date(2025, 12, 31) THEN "Dropped- 12/31/2025"
    ELSE "-"

\* C21: a drop request checks neither capacity nor prior status: whatever the
\* store holds, it goes straight to exactly one write, of the status
\* "Dropped- MM/DD/YYYY" with the day's date, for the participant it names;
\* that write changes the status of that signup and nothing else (no other
\* status, no other field, no record removed), and after it the signup is
\* classified as dropped, not as roster, and is still among its trip's
\* signups; every listing returns each dropped signup among the signups and
\* the dropped, and not in the roster.
C21_SoftDelete ==
    [][\A r \in Slots :
          /\ (reqs[r].pc = "idle" /\ reqs'[r].op = "dropParticipant") =>
                /\ reqs'[r].pc = "writing"
                /\ Len(reqs'[r].tasks) = 1 /\ reqs'[r].inflight = {1}
                /\ reqs'[r].tasks[1].id = reqs'[r].participantId
                /\ reqs'[r].tasks[1].status = DroppedOn(reqs'[r].today)
                /\ reqs'[r].today \in Dates
                /\ status' = status /\ signups' = signups /\ trips' = trips
                /\ proposedRosters' = proposedRosters
          /\ (reqs[r].op = "dropParticipant" /\ reqs[r].pc = "writing"
                 /\ reqs'[r].result = "ok") =>
                LET id == reqs[r].participantId
                IN  /\ reqs'[r].pc = "done" /\ reqs'[r].tasks = reqs[r].tasks
                    /\ status'[id] = DroppedOn(reqs[r].today)
                    /\ \A other \in (DOMAIN status) \ {id} : status'[other] = status[other]
                    /\ DOMAIN status' = DOMAIN status
                    /\ signups' = signups /\ trips' = trips
                    /\ proposedRosters' = proposedRosters
                    /\ isDropped(status'[id]) /\ ~isOnRoster(status'[id])
                    /\ \E s \in Range(signups') :
                          s.id = id /\ id \in Range(IdsOf(fetchTripSignups(s.trip)'))
          /\ (reqs[r].pc = "idle" /\ reqs'[r].op = "signups") =>
                \A id \in TripIds(reqs'[r].trip) :
                    isDropped(status[id]) =>
                       /\ id \in Range(reqs'[r].view.signups)
                       /\ id \in Range(reqs'[r].view.dropped)
                       /\ id \notin Range(reqs'[r].view.roster)]_vars

\* C21 witness: a participant who was on the roster was dropped on a day with
\* a one-digit month, and a later listing returned the signup among the
\* signups and the dropped and not in the roster.
C21_Witness ==
    \E r, q \in Slots :
        /\ r < q
        /\ reqs[r].op = "dropParticipant" /\ reqs[r].pc = "done" /\ reqs[r].result = "ok"
        /\ isOnRoster(reqs[r].prior)
        /\ status[reqs[r].participantId] = "Dropped- 01/05/2026"
        /\ reqs[q].op = "signups" /\ reqs[q].pc = "done"
        /\ reqs[r].participantId \in Range(reqs[q].view.signups)
        /\ reqs[r].participantId \in Range(reqs[q].view.dropped)
        /\ reqs[r].participantId \notin Range(reqs[q].view.roster)

\* request r is a finished drop of a participant of the trip who was on the
\* roster when the request arrived
DroppedFromRoster(r) ==
    /\ reqs[r].op = "dropParticipant" /\ reqs[r].pc = "done" /\ reqs[r].result = "ok"
    /\ reqs[r].participantId \in TripIds(reqs[r].trip)
    /\ isOnRoster(reqs[r].prior)

\* C22: when requests are served one after the other, a readmit of a
\* participant that follows directly on the drop that took that participant
\* off the roster succeeds, and the participant is on the roster again.
C22_DroppedStaysReadmittable ==
    \A r \in Slots :
        (/\ r + 1 \in Slots
         /\ DroppedFromRoster(r)
         /\ reqs[r + 1].op = "reAddParticipant" /\ reqs[r + 1].pc = "done"
         /\ reqs[r + 1].trip = reqs[r].trip
         /\ reqs[r + 1].participantId = reqs[r].participantId)
        => /\ reqs[r + 1].result = "ok"
           /\ isOnRoster(status[reqs[r].participantId])

\* request r is an answered listing
Listed(r) == reqs[r].op = "signups" /\ reqs[r].pc = "done"

\* the classes a listing put the signup id into
ClassesOf(view, id) ==
    (IF id \in Range(view.roster) THEN {"roster"} ELSE {})
        \cup (IF id \in Range(view.waitlist) THEN {"waitlist"} ELSE {})
        \cup (IF id \in Range(view.dropped) THEN {"dropped"} ELSE {})

\* C23: a listing puts a signup with a status the handlers write into exactly
\* one class: "Selected (driver)" and "Selected (nondriver)" into the roster,
\* "Waitlist (driver) - N" and "Waitlist (nondriver) - N" into the waitlist,
\* "Dropped- MM/DD/YYYY" into the dropped; for every status it classifies by
\* the substring rules on the lower-cased text; and no signup, whatever its
\* status, is both in the roster and in the dropped.
C23_ClassificationExhaustive ==
    \A r \in Slots :
        Listed(r) =>
           \A id \in TripIds(reqs[r].trip) :
               LET st == status[id]
                   lower == toLowerCase(st)
                   classes == ClassesOf(reqs[r].view, id)
               IN  /\ st \in RosterStatuses => classes = {"roster"}
                   /\ st \in WaitlistStatuses => classes = {"waitlist"}
                   /\ st \in DroppedStatuses => classes = {"dropped"}
                   /\ "roster" \in classes <=>
                          /\ includes(lower, "selected") \/ includes(lower, "on trip")
                          /\ ~includes(lower, "dropped")
                   /\ "waitlist" \in classes <=> includes(lower, "waitlist")
                   /\ "dropped" \in classes <=> includes(lower, "dropped")
                   /\ ~({"roster", "dropped"} \subseteq classes)
                   /\ id \in Range(reqs[r].view.signups)

\* C23 witness: a signup whose status holds both "Selected" and "Dropped-"
\* was listed among the dropped and not in the roster.
C23_Witness ==
    \E r \in Slots :
        /\ Listed(r)
        /\ status["s1"] = "Selected Dropped-"
        /\ ClassesOf(reqs[r].view, "s1") = {"dropped"}

----------------------------------------------------------------------------
(* Properties of the expiry sweep *)

\* this step is a run of the interval timer's callback
SweepRuns == sinceSweep' < sinceSweep

\* C24: a run of the sweep removes exactly the cache entries whose age is
\* more than 10 minutes (600000 ms), leaves every other entry as it was and
\* adds none, and touches nothing but the cache; and with the sweep running
\* every minute, no cache entry is ever older than 10 minutes plus one minute.
C24_SweepRemovesExpired ==
    /\ [][SweepRuns =>
            /\ \A k \in DOMAIN proposedRosters :
                  IF proposedRosters[k].age > 600000
                  THEN k \notin DOMAIN proposedRosters'
                  ELSE /\ k \in DOMAIN proposedRosters'
                       /\ proposedRosters'[k] = proposedRosters[k]
            /\ DOMAIN proposedRosters' \subseteq DOMAIN proposedRosters
            /\ status' = status /\ reqs' = reqs
            /\ signups' = signups /\ trips' = trips]_vars
    /\ [](\A k \in DOMAIN proposedRosters :
             proposedRosters[k].age <= 600000 + 60000)

\* C24 witness: a proposal that nobody approved is gone from the cache right
\* after a run of the sweep.
C24_Witness ==
    /\ sinceSweep = 0
    /\ proposedRosters = <<>>
    /\ \E r \in Slots : Proposed(r, reqs[r].trip)
    /\ \A q \in Slots : ~Passed(q)

\* the proposal stored by request r is in the cache
Cached(r) == \E k \in DOMAIN proposedRosters : proposedRosters[k].by = r

\* C25: with time going on and the sweep firing, every proposal that is
\* stored is eventually out of the cache, so one that is neither approved nor
\* replaced is removed by the sweep; a trip gets an entry only by a randomize
\* call for it; and an approve for a trip without an entry fails with
\* NoPendingProposal and writes nothing.
C25_ProposalsDoNotLeak ==
    /\ \A r \in 1..MaxTimedReq : Cached(r) ~> ~Cached(r)
    /\ [][/\ \A k \in (DOMAIN proposedRosters') \ (DOMAIN proposedRosters) :
                \E r \in Slots :
                    /\ reqs[r].pc = "idle" /\ reqs'[r].op = "randomize"
                    /\ reqs'[r].trip = k /\ reqs'[r].result = "ok"
          /\ \A r \in Slots :
                (/\ reqs[r].pc = "idle" /\ reqs'[r].op = "approve"
                 /\ reqs'[r].trip \notin DOMAIN proposedRosters)
                => /\ reqs'[r].pc = "done"
                   /\ reqs'[r].result = "NoPendingProposal"
                   /\ reqs'[r].tasks = <<>>
                   /\ status' = status]_vars

\* C25 witness: a proposal was stored, no approval ever passed validation,
\* and an approve that carried the proposal's own id lists has failed with
\* NoPendingProposal.
C25_Witness ==
    \E r, q \in Slots :
        /\ r < q
        /\ Proposed(r, reqs[r].trip)
        /\ reqs[q].op = "approve" /\ reqs[q].trip = reqs[r].trip
        /\ reqs[q].result = "NoPendingProposal"
        /\ \A p \in Slots : ~Passed(p)
        /\ proposedRosters = <<>>

----------------------------------------------------------------------------
(* Properties of sequences of operations *)

----------------------------------------------------------------------------
(* Properties of an approval whose reads or writes fail *)

\* request r is an approval that passed validation and has reported an error
FailedApproval(r) == Passed(r) /\ reqs[r].result = "UpstreamFailure"

\* a randomize call for tripId stored a proposal between the requests r and q
ProposedBetween(r, q, tripId) ==
    \E p \in Slots : r < p /\ p < q /\ Proposed(p, tripId)

\* C27: an approval that passed validation reports an error as soon as its
\* signup fetch or one of its writes fails; the step in which that happens
\* changes no status (the writes already applied stay) and does not touch the
\* cache; the proposal the approval consumed is out of the cache; every
\* later approve for the trip fails with NoPendingProposal unless a randomize
\* call for the trip came in between; and an approval reports success only
\* when it has finished with every update issued and none failed.
C27_ConsumedOnFailure ==
    /\ [][\A r \in Slots :
             (/\ reqs[r].op = "approve"
              /\ \/ reqs[r].pc = "fetching" /\ reqs'[r].tasks = <<>>
                                            /\ reqs'[r].result = "UpstreamFailure"
                 \/ reqs'[r].failed # reqs[r].failed)
             => /\ reqs'[r].result = "UpstreamFailure"
                /\ status' = status
                /\ proposedRosters' = proposedRosters]_vars
    /\ [](\A r \in Slots :
             /\ FailedApproval(r) =>
                   /\ \A k \in DOMAIN proposedRosters :
                         proposedRosters[k].by # reqs[r].pid
                   /\ \A q \in Slots :
                         (/\ r < q /\ reqs[q].op = "approve"
                          /\ reqs[q].trip = reqs[r].trip
                          /\ ~ProposedBetween(r, q, reqs[r].trip))
                         => reqs[q].result = "NoPendingProposal"
             /\ (reqs[r].op = "approve" /\ reqs[r].failed # {}) =>
                   reqs[r].result = "UpstreamFailure"
             /\ (reqs[r].op = "approve" /\ reqs[r].result = "ok") =>
                   /\ reqs[r].pc = "done"
                   /\ reqs[r].failed = {}
                   /\ reqs[r].inflight = {}
                   /\ reqs[r].started = Len(reqs[r].tasks)
                   /\ Len(reqs[r].tasks)
                         = Len(reqs[r].rosterIds) + Len(reqs[r].waitlistIds))

\* C27 witness: an approval has reported an error after one of its writes
\* failed, another of its writes is on the store, and the next approve for the
\* trip, with no randomize call in between, has failed with NoPendingProposal.
C27_Witness ==
    \E r, q \in Slots :
        /\ r < q
        /\ FailedApproval(r) /\ reqs[r].pc = "done" /\ reqs[r].failed # {}
        /\ \E i \in DOMAIN reqs[r].tasks :
              /\ i \notin reqs[r].failed
              /\ status[reqs[r].tasks[i].id] = reqs[r].tasks[i].status
        /\ \E i \in reqs[r].failed : status[reqs[r].tasks[i].id] = "UNKNOWN"
        /\ reqs[q].op = "approve" /\ reqs[q].trip = reqs[r].trip
        /\ ~ProposedBetween(r, q, reqs[r].trip)
        /\ reqs[q].result = "NoPendingProposal"

----------------------------------------------------------------------------
(* Overlapping randomize requests *)

\* request r answered a randomize call for the trip with a proposal
Stored(r, tripId) ==
    reqs[r].op = "randomize" /\ reqs[r].result = "ok" /\ reqs[r].trip = tripId

\* the cache entry of the trip holds the lists of request r, both of them
HoldsProposalOf(cache, tripId, r) ==
    /\ tripId \in DOMAIN cache
    /\ cache[tripId].rosterIds = reqs[r].rosterIds
    /\ cache[tripId].waitlistIds = reqs[r].waitlistIds

\* the proposals of requests p and q are equal as sets
EqualAsSets(p, q) ==
    /\ Range(reqs[p].rosterIds) = Range(reqs[q].rosterIds)
    /\ Range(reqs[p].waitlistIds) = Range(reqs[q].waitlistIds)

\* C28: last write wins, never merged. When randomize requests for the same
\* trip interleave, (a) the cache entry of a trip, while there is one, holds the
\* rosterIds and the waitlistIds of one single request that answered with a
\* proposal for that trip, (b) that request is the one whose put happened last:
\* a step in which a request stores its proposal leaves exactly its two lists in
\* the trip's entry and every other entry as it was, and no other step changes
\* the lists of an entry, (c) the body of another request's proposal passes the
\* validation against the entry exactly if the two proposals are equal as sets,
\* and (d) an approval that passed carries the id sets of the proposal it
\* consumed.
C28_LastWriteWins ==
    /\ [](\A tripId \in DOMAIN proposedRosters :
            LET p == proposedRosters[tripId].by
            IN  /\ Stored(p, tripId)
                /\ HoldsProposalOf(proposedRosters, tripId, p)
                /\ \A q \in Slots :
                       Stored(q, tripId) =>
                           (Validate(proposedRosters, tripId,
                                     reqs[q].rosterIds, reqs[q].waitlistIds) = "ok"
                                <=> EqualAsSets(p, q)))
    /\ [](\A r \in Slots :
            reqs[r].op = "approve" /\ reqs[r].pid # 0 =>
                /\ Stored(reqs[r].pid, reqs[r].trip)
                /\ Range(reqs[r].rosterIds) = Range(reqs[reqs[r].pid].rosterIds)
                /\ Range(reqs[r].waitlistIds) = Range(reqs[reqs[r].pid].waitlistIds))
    /\ [][\A tripId \in DOMAIN proposedRosters' :
              \/ /\ tripId \in DOMAIN proposedRosters
                 /\ proposedRosters'[tripId] = proposedRosters[tripId]
              \/ \E r \in Slots :
                    /\ ~Stored(r, tripId)
                    /\ Stored(r, tripId)'
                    /\ proposedRosters'[tripId].by = r
                    /\ proposedRosters'[tripId].rosterIds = reqs'[r].rosterIds
                    /\ proposedRosters'[tripId].waitlistIds = reqs'[r].waitlistIds
                    /\ DOMAIN proposedRosters' = DOMAIN proposedRosters \cup {tripId}]_vars

\* C28 witness: two requests for the same trip both read before either stored;
\* both then stored proposals that differ as sets, and the cache holds the lists
\* of one of them while the other's no longer pass
C28_Witness ==
    \E p, q \in Slots :
        /\ p < q
        /\ Stored(p, "t1") /\ Stored(q, "t1")
        /\ ~EqualAsSets(p, q)
        /\ "t1" \in DOMAIN proposedRosters
        /\ proposedRosters["t1"].by = p
        /\ HoldsProposalOf(proposedRosters, "t1", p)
        /\ Validate(proposedRosters, "t1", reqs[q].rosterIds, reqs[q].waitlistIds)
               = "ProposalMismatch"

----------------------------------------------------------------------------
(* Overlapping promotion and readmit requests *)

\* what the handler of request r decides when it runs alone on the statuses st
DecisionOn(st, r) ==
    LET list == fetchTripSignups(reqs[r].trip)
        maxParticipants == trips[reqs[r].trip].cap
        driverSlots == trips[reqs[r].trip].drv
    IN  IF reqs[r].op = "addFromWaitlist"
        THEN addFromWaitlist(list, st, maxParticipants, driverSlots)
        ELSE IF reqs[r].op = "addDriver"
        THEN addDriver(list, st, maxParticipants, driverSlots)
        ELSE IF reqs[r].op = "addNonDriver"
        THEN addNonDriver(list, st, maxParticipants, driverSlots)
        ELSE reAddParticipant(list, st, maxParticipants, driverSlots,
                              reqs[r].participantId)

\* the statuses after the write of a decision
StatusAfter(st, decision) ==
    IF decision.result = "ok" THEN [st EXCEPT ![decision.id] = decision.status]
    ELSE st

\* the statuses and the two answers are those of serving request first to its
\* end and then request second, from the statuses the store started with
SerialOutcome(first, second) ==
    LET d1 == DecisionOn(OverlapStatus, first)
        st1 == StatusAfter(OverlapStatus, d1)
        d2 == DecisionOn(st1, second)
    IN  /\ status = StatusAfter(st1, d2)
        /\ reqs[first].result = d1.result
        /\ reqs[second].result = d2.result

\* C29: promotion and readmit requests for the same trip that overlap in time
\* leave the statuses and give the answers of some one-at-a-time order of the
\* same requests; the roster never exceeds the capacity and the roster drivers
\* never exceed driverSlots.
C29_OverlapIsSerial ==
    /\ (\A r \in Slots : reqs[r].pc = "done")
           => SerialOutcome(1, 2) \/ SerialOutcome(2, 1)
    /\ \A tripId \in Trips :
           /\ Cardinality(RosterIdsOf(tripId)) <= trips[tripId].cap
           /\ RosterCount(tripId, TRUE) <= trips[tripId].drv

----------------------------------------------------------------------------
(* What an approval leaves in the store *)

\* request r is an approval that answered with success
Approved(r) == reqs[r].op = "approve" /\ reqs[r].pc = "done" /\ reqs[r].result = "ok"

\* C30: approval commits the proposal exactly. When requests are served one at
\* a time on a trip whose signup records stay the same, then after an approve
\* that answered with success the signups listing of the trip classifies as
\* roster exactly the approved rosterIds, as waitlist exactly the approved
\* waitlistIds, and no signup of the trip as dropped.
C30_ApprovalCommitsProposal ==
    \A r \in Slots :
        Approved(r) =>
            LET view == listSignups(fetchTripSignups(reqs[r].trip), status)
            IN  /\ Range(view.roster) = Range(reqs[r].rosterIds)
                /\ Range(view.waitlist) = Range(reqs[r].waitlistIds)
                /\ view.dropped = <<>>
                /\ Range(view.signups) =
                       Range(reqs[r].rosterIds) \cup Range(reqs[r].waitlistIds)

\* C30 witness: an approval answered with success; it put one signup on the
\* roster and one on the waitlist
C30_Witness ==
    \E r \in Slots :
        /\ Approved(r)
        /\ reqs[r].rosterIds # <<>>
        /\ reqs[r].waitlistIds # <<>>
        /\ Range(listSignups(fetchTripSignups(reqs[r].trip), status).roster)
               = Range(reqs[r].rosterIds)

----------------------------------------------------------------------------
(* Further properties of the proposals *)

\* C31: backfill only on exhaustion. In every proposal, whenever the
\* selected-non-driver list holds a signup with the driver flag, no signup
\* without the flag is on the proposed waitlist; and the drivers in the
\* selected-non-driver list are none of the selected drivers, whose number
\* stays min(driver slots needed, driver-eligible signups).
C31_BackfillOnlyOnExhaustion ==
    \A r \in Slots :
        Allocated(r) =>
            LET tripId == reqs[r].trip
                backfilled == {id \in Range(reqs[r].selND) : IsDriverId(id)}
            IN  /\ backfilled # {} => CountFlag(reqs[r].waitlistIds, FALSE) = 0
                /\ backfilled \cap Range(reqs[r].selD) = {}
                /\ Len(reqs[r].selD) =
                       Min(trips[tripId].drv, Cardinality(DriverIdsOf(tripId)))
                /\ Cardinality(Range(reqs[r].selD)) = Len(reqs[r].selD)

\* C31 witness: a proposal with selected drivers, a driver in a non-driver slot
\* next to a non-driver, and a driver left for the waitlist
C31_Witness ==
    \E r \in Slots :
        /\ Allocated(r)
        /\ reqs[r].selD # <<>>
        /\ CountFlag(reqs[r].selND, TRUE) > 0
        /\ CountFlag(reqs[r].selND, FALSE) > 0
        /\ CountFlag(reqs[r].waitlistIds, TRUE) > 0
        /\ CountFlag(reqs[r].waitlistIds, FALSE) = 0

----------------------------------------------------------------------------
(* Which participant a promotion picks *)

\* the ids of the trip's waitlisted signups with the given driver flag, in the
\* order of the fetched signup list
WaitingInListOrder(tripId, flag) ==
    LET list == fetchTripSignups(tripId)
    IN  IdsOf(Filter(list, {x \in Range(list) :
                               isOnWaitlist(status[x.id]) /\ x.isDriver = flag}))

\* the driver flag of the participant a promotion of operation op goes for
FlagSought(tripId, op) ==
    IF op = "addDriver" THEN TRUE
    ELSE IF op = "addNonDriver" THEN FALSE
    ELSE DriverSpots(tripId) > 0 /\ Waitlisted(tripId, TRUE) # {}

\* C32: deterministic promotion. When promoteNext, promoteDriver or
\* promoteNonDriver decides to promote, the participant is fixed by the trip
\* and signup records alone: it is the first signup, in the order of the
\* fetched signup list, among the waitlisted signups with the driver flag
\* sought (drivers for promoteDriver, non-drivers for promoteNonDriver, and for
\* promoteNext drivers exactly if a driver spot is open and a driver is
\* waitlisted), whatever the position numbers in the statuses are.
C32_DeterministicPromotion ==
    [][\A r \in Slots :
          \A op \in {"addFromWaitlist", "addDriver", "addNonDriver"} :
             (Decides(r, op) /\ reqs'[r].pc = "writing") =>
                 LET waiting == WaitingInListOrder(reqs[r].trip,
                                                   FlagSought(reqs[r].trip, op))
                 IN  /\ waiting # <<>>
                     /\ Len(reqs'[r].tasks) = 1
                     /\ reqs'[r].tasks[1].id = waiting[1]]_vars

\* C32 witness: promoteDriver is about to write the status of the driver the
\* signup list holds first, who waits at position 2, while the driver at
\* position 1 comes later in the list and stays waitlisted
C32_Witness ==
    \E r \in Slots :
        /\ reqs[r].op = "addDriver" /\ reqs[r].pc = "writing"
        /\ reqs[r].tasks[1].id = "s1"
        /\ status["s1"] = "Waitlist (driver) - 2"
        /\ "s2" \in DOMAIN status
        /\ status["s2"] = "Waitlist (driver) - 1"

----------------------------------------------------------------------------
(* Whom a readmit applies to *)

\* C33: readmit applies to dropped participants only. The write of a readmit
\* request changes the status of a signup only if that signup was classified
\* as dropped; a readmit called with the id of a signup on the waitlist or on
\* the roster changes no status.
C33_ReadmitDroppedOnly ==
    [][\A r \in Slots :
          (/\ reqs[r].op = "reAddParticipant"
           /\ reqs[r].pc = "writing" /\ reqs'[r].pc = "done")
          => \A id \in DOMAIN status :
                status'[id] # status[id] => isDropped(status[id])]_vars

----------------------------------------------------------------------------
(* The stored proposal as a partition *)

\* the id list holds no id twice
NoRepeats(ids) == Cardinality(Range(ids)) = Len(ids)

\* C34: a proposal is a partition of the trip's signups. For every stored
\* proposal, rosterIds and waitlistIds hold no id twice, share no id, and
\* together hold exactly the ids of all signups of the trip, those with a
\* dropped status included (the signup records of the trip stay the same
\* throughout).
C34_ProposalIsPartition ==
    \A tripId \in DOMAIN proposedRosters :
        LET p == proposedRosters[tripId]
        IN  /\ NoRepeats(p.rosterIds)
            /\ NoRepeats(p.waitlistIds)
            /\ Range(p.rosterIds) \cap Range(p.waitlistIds) = {}
            /\ Range(p.rosterIds) \cup Range(p.waitlistIds) = TripIds(tripId)

\* C34 witness: a stored proposal with a roster and a waitlist, one of whose
\* signups has a dropped status
C34_Witness ==
    \E tripId \in DOMAIN proposedRosters :
        /\ proposedRosters[tripId].rosterIds # <<>>
        /\ proposedRosters[tripId].waitlistIds # <<>>
        /\ \E id \in TripIds(tripId) : isDropped(status[id])

----------------------------------------------------------------------------
(* The statuses written and the driver flag *)

\* the status names the role the driver flag gives
AgreesWithFlag(id, newStatus) ==
    /\ id \in AllIds
    /\ IF IsDriverId(id)
       THEN \/ newStatus = "Selected (driver)"
            \/ /\ Len(newStatus) > Len("Waitlist (driver) - ")
               /\ SubSeq(newStatus, 1, Len("Waitlist (driver) - ")) = "Waitlist (driver) - "
       ELSE \/ newStatus = "Selected (nondriver)"
            \/ /\ Len(newStatus) > Len("Waitlist (nondriver) - ")
               /\ SubSeq(newStatus, 1, Len("Waitlist (nondriver) - "))
                     = "Waitlist (nondriver) - "

\* C35: status and driver flag agree. Every status update that approve,
\* promoteNext, promoteDriver, promoteNonDriver and readmit issue names the
\* role of the signup's driver flag: "Selected (driver)" or "Waitlist (driver)
\* - N" for a signup with the flag, "Selected (nondriver)" or "Waitlist
\* (nondriver) - N" for one without; and when the request has answered with
\* success the signups hold the statuses it issued.
C35_StatusAgreesWithFlag ==
    \A r \in Slots :
        reqs[r].op \in PromotionOps \cup {"approve"} =>
            \A i \in DOMAIN reqs[r].tasks :
                /\ AgreesWithFlag(reqs[r].tasks[i].id, reqs[r].tasks[i].status)
                /\ (reqs[r].pc = "done" /\ reqs[r].result = "ok") =>
                       status[reqs[r].tasks[i].id] = reqs[r].tasks[i].status

\* C35 witness: an approval answered with success on a trip without driver
\* slots; a driver of its roster, who can only hold a non-driver slot, is
\* committed as "Selected (driver)"
C35_Witness ==
    \E r \in Slots :
        /\ Approved(r)
        /\ trips[reqs[r].trip].drv = 0
        /\ \E id \in Range(reqs[r].rosterIds) :
              IsDriverId(id) /\ status[id] = "Selected (driver)"

----------------------------------------------------------------------------
(* Roster drivers and driver slots *)

\* C36: driver-slot bound on the committed roster. Starting from a roster with
\* at most driverSlots drivers, after any sequence of completed propose,
\* approve, promote, readmit and drop operations the number of signups with
\* the driver flag that are classified as roster is at most the trip's
\* driverSlots.
C36_DriverSlotBound ==
    Quiet => \A tripId \in Trips : RosterCount(tripId, TRUE) <= trips[tripId].drv

----------------------------------------------------------------------------
(* Approval of a proposal that is no longer current *)

\* the status the proposal of an approval gives the signup
ProposalGives(r, id, st) ==
    IF id \in Range(reqs[r].rosterIds) THEN st = SelectedStatus(IsDriverId(id))
    ELSE isOnWaitlist(st) /\ ~isOnRoster(st) /\ ~isDropped(st)

\* C37: approval ignores changes made after the proposal. Requests being
\* served one at a time, (a) no step of a drop, promote or readmit request
\* changes the proposal cache, (b) an approve that sends the ids of the cached
\* proposal passes the validation and consumes the entry, whatever the
\* statuses are by then, and (c) when the approve answers with success every
\* signup of the proposal holds the Selected or Waitlist status the proposal
\* gives it, a participant dropped or promoted since the propose included.
C37_ApprovalIgnoresLaterChanges ==
    [][\A r \in Slots :
          /\ (reqs'[r] # reqs[r]
                 /\ reqs'[r].op \in PromotionOps \cup {"dropParticipant"})
             => proposedRosters' = proposedRosters
          /\ (reqs[r].pc = "idle" /\ reqs'[r].op = "approve")
             => /\ reqs'[r].pc = "fetching"
                /\ reqs'[r].pid = proposedRosters[reqs'[r].trip].by
                /\ reqs'[r].trip \notin DOMAIN proposedRosters'
          /\ (reqs[r].op = "approve" /\ reqs[r].pc # "done" /\ Approved(r)')
             => \A id \in Range(reqs[r].rosterIds) \cup Range(reqs[r].waitlistIds) :
                   ProposalGives(r, id, status'[id])]_vars

\* C37 witness: a proposal was stored, then a participant on its roster was
\* dropped and a participant on its waitlist was promoted, then the proposal
\* was approved: the dropped one is selected again and the promoted one is
\* back on the waitlist
C37_Witness ==
    \E p, d, a \in Slots :
        /\ p < d /\ d < a
        /\ Stored(p, "t1")
        /\ reqs[d].op \in {"dropParticipant", "addFromWaitlist"}
        /\ reqs[d].pc = "done" /\ reqs[d].result = "ok"
        /\ Approved(a) /\ reqs[a].pid = p
        /\ LET id == reqs[d].tasks[1].id
           IN  IF reqs[d].op = "dropParticipant"
               THEN id \in Range(reqs[a].rosterIds) /\ isOnRoster(status[id])
               ELSE id \in Range(reqs[a].waitlistIds) /\ isOnWaitlist(status[id])

----------------------------------------------------------------------------
(* Trips do not touch each other *)

\* C38: trip isolation. Every step of a request made with trip identifier T
\* (propose, approve, promoteNext, promoteDriver, promoteNonDriver, readmit,
\* drop) changes at most the cache entry of T and the statuses of signups
\* whose trip is T.
C38_TripIsolation ==
    [][\A r \in Slots :
          reqs'[r] # reqs[r] =>
              LET T == reqs'[r].trip
              IN  /\ \A id \in DOMAIN status :
                        status'[id] # status[id] => id \in TripIds(T)
                  /\ \A k \in ((DOMAIN proposedRosters) \cup (DOMAIN proposedRosters'))
                                \ {T} :
                        /\ k \in DOMAIN proposedRosters
                        /\ k \in DOMAIN proposedRosters'
                        /\ proposedRosters'[k] = proposedRosters[k]]_vars

----------------------------------------------------------------------------
(* Waitlist positions *)

\* C39: waitlist positions stay distinct. Starting from a store in which no two
\* signups of a trip carry the same waitlist status, after any sequence of
\* completed operations on the same signup records, every write succeeding, no
\* two signups of a trip carry the same "Waitlist (driver) - N" or the same
\* "Waitlist (nondriver) - N" status.
C39_WaitlistPositionsDistinct ==
    Quiet =>
        \A tripId \in Trips :
            \A a, b \in WaitlistIdsOf(tripId) :
                a # b => status[a] # status[b]

====
